---- MODULE Spec2Model ----
(***************************************************************************)
(* Model of the QA API testing framework:                                  *)
(*   - utils/schema_manager.py : SchemaManager (download, cache, lookups)  *)
(*   - conftest.py             : the _endpoint_results aggregator          *)
(*   - tests/performance       : the thread-pool tests writing to it,      *)
(*                               the light stress loop, the verdict of     *)
(*                               test_concurrent_requests                  *)
(*   - tests/discovery         : the sequential tests recording into it,   *)
(*                               the discovery, recovery and cooldown loops*)
(*   - tests/reliability       : the retry loop                            *)
(*   - conftest.py             : the schema fixtures                       *)
(*   - config/logger_config.py : get_test_logger                           *)
(*                                                                         *)
(* Strings whose content the code inspects (paths, HTTP method names) are  *)
(* sequences of character codes, so that startswith, lower and sorted are  *)
(* computed as Python computes them.                                       *)
(***************************************************************************)
EXTENDS Naturals, Sequences, FiniteSets, Bags

VARIABLES
    server,     \* the YAML document the server currently serves
    file,       \* the cache file data/schemas/openapi_schema.json
    call,       \* the last SchemaManager call: arguments, effects, result
    endpoint_results,  \* _endpoint_results[endpoint_path]: 0, or the dict it holds
    dicts,      \* the entry dicts created by the default factory, by identity
    session,    \* which test of the session runs, and where its main thread is
    base,       \* the entry as the running test found it
    queue,      \* the executor's work queue: submitted calls not yet taken
    futures,    \* per submitted call: its state and its result
    workers,    \* the pool's worker threads (a bag: threads are interchangeable)
    results,    \* the test's results list
    yielded,    \* the futures as_completed has handed to the loop
    aggregator, \* _endpoint_results as a whole: its keys in insertion order
    entries,    \* the entry dicts of the aggregator, by identity
    lists,      \* the list objects the entries hold, by identity
    accessed,   \* the keys some code has subscripted _endpoint_results with
    phase,      \* where the pytest session is: created, tests, finished
    log,        \* the endpoint discovery summaries written to the log
    running,    \* the sequential test that runs, with its locals
    trial,      \* the request-issuing test that runs, with its locals
    sent,       \* the outcomes of the requests that test has issued, in order
    verdict,    \* how that test ended
    fixture,    \* the session's schema_manager fixture: made or not, and how
    test_logger,   \* config.logger_config._test_logger: None, or a logger
    registry,   \* the logging module's loggers by name: their handlers
    logger_calls   \* the get_test_logger calls made so far, in order

schemaVars == <<server, file, call>>
poolVars == <<endpoint_results, dicts, session, base, queue, futures, workers,
              results, yielded>>
sessionVars == <<aggregator, entries, lists, accessed, phase, log, running>>
testVars == <<trial, sent, verdict>>
setupVars == <<fixture, test_logger, registry, logger_calls>>
vars == <<server, file, call, endpoint_results, dicts, session, base, queue,
          futures, workers, results, yielded, aggregator, entries, lists,
          accessed, phase, log, running, trial, sent, verdict, fixture,
          test_logger, registry, logger_calls>>

\* the schema_manager fixture has not been requested yet
NoFixture ==
    [made |-> FALSE, raised |-> "none",
     left |-> [exists |-> FALSE, whole |-> FALSE,
               text |-> [openapi |-> "", hasPaths |-> FALSE, paths |-> <<>>]]]

\* _test_logger = None
None == "None"

\* the logging module has created no logger yet
NoLoggers == <<>>

\* no sequential test of the session is running
NotRunning ==
    [test |-> "none", pc |-> "idle", endpoint |-> <<>>, i |-> 0, successes |-> 0,
     errors |-> 0, timeouts |-> 0, verdict |-> "none",
     found |-> [status_codes |-> <<>>, response_times |-> <<>>, test_count |-> 0,
                passed |-> 0, failed |-> 0]]

\* no request-issuing test is running
NoTest ==
    [name |-> "none", pc |-> "idle", endpoint |-> <<>>, attempt |-> 0,
     success |-> FALSE, results |-> <<>>, attached |-> FALSE, raised |-> "none"]

----------------------------------------------------------------------------
(* Strings as sequences of character codes.                                *)

\* "/api/test/"
TestPrefix == <<47, 97, 112, 105, 47, 116, 101, 115, 116, 47>>

PathTest1 == TestPrefix \o <<49>>
PathTest2 == TestPrefix \o <<50>>
PathTest10 == TestPrefix \o <<49, 48>>
PathTest9 == TestPrefix \o <<57>>
\* "/health"
PathHealth == <<47, 104, 101, 97, 108, 116, 104>>
\* "/api/testing": shares "/api/test" with the prefix, not the final "/"
PathTesting == <<47, 97, 112, 105, 47, 116, 101, 115, 116, 105, 110, 103>>

\* "get", "GET", "post", "delete"
MGet == <<103, 101, 116>>
MGetUpper == <<71, 69, 84>>
MPost == <<112, 111, 115, 116>>
MDelete == <<100, 101, 108, 101, 116, 101>>

\* str.startswith
StartsWith(s, p) == Len(s) >= Len(p) /\ SubSeq(s, 1, Len(p)) = p

\* str.lower on ASCII
Lower(s) == [i \in DOMAIN s |-> IF s[i] \in 65..90 THEN s[i] + 32 ELSE s[i]]

\* Python's str "<": lexicographic by code point, a proper prefix first
RECURSIVE StrLess(_, _)
StrLess(a, b) ==
    IF a = <<>> THEN b # <<>>
    ELSE IF b = <<>> THEN FALSE
    ELSE IF a[1] # b[1] THEN a[1] < b[1]
    ELSE StrLess(Tail(a), Tail(b))

\* insertion of x into an ascending list, after the elements not greater
RECURSIVE Insert(_, _)
Insert(x, l) ==
    IF l = <<>> THEN <<x>>
    ELSE IF StrLess(x, l[1]) THEN <<x>> \o l
    ELSE <<l[1]>> \o Insert(x, Tail(l))

RECURSIVE SortedFrom(_, _)
SortedFrom(l, acc) ==
    IF l = <<>> THEN acc ELSE SortedFrom(Tail(l), Insert(l[1], acc))

Unsorted(l) == l

\* sorted(list of str)
Sorted(l) == SortedFrom(l, <<>>)

----------------------------------------------------------------------------
(* Mappings.  A Python dict is a sequence of [k, v] pairs with distinct    *)
(* keys, in insertion order.  A YAML or JSON text is a sequence of pairs   *)
(* that may repeat a key.                                                  *)

Keys(m) == [i \in DOMAIN m |-> m[i].k]
HasKey(m, key) == \E i \in DOMAIN m : m[i].k = key
Get(m, key) == m[CHOOSE i \in DOMAIN m : m[i].k = key].v

MaxOf(S) == CHOOSE x \in S : \A y \in S : y <= x

\* d = {}; for k, v in pairs: d[k] = v   -- first position, last value
RECURSIVE DictFrom(_, _)
DictFrom(pairs, i) ==
    IF i > Len(pairs) THEN <<>>
    ELSE IF \A j \in 1..(i - 1) : pairs[j].k # pairs[i].k
         THEN <<[k |-> pairs[i].k,
                 v |-> pairs[MaxOf({j \in DOMAIN pairs : pairs[j].k = pairs[i].k})].v]>>
              \o DictFrom(pairs, i + 1)
         ELSE DictFrom(pairs, i + 1)

Dict(pairs) == DictFrom(pairs, 1)


\* a response-code key: the YAML scalar 200 is an int, '200' a str
IntKey(n) == [int |-> TRUE, num |-> n]
StrKey(n) == [int |-> FALSE, num |-> n]

\* json.dump writes an int key as its decimal string
JsonKey(key) == StrKey(key.num)

\* yaml.safe_load of the three nested mapping levels of a document
YamlOperation(op) == Dict(op)
YamlPathItem(item) ==
    LET m == Dict(item) IN [i \in DOMAIN m |-> [k |-> m[i].k, v |-> YamlOperation(m[i].v)]]
YamlPaths(paths) ==
    LET m == Dict(paths) IN [i \in DOMAIN m |-> [k |-> m[i].k, v |-> YamlPathItem(m[i].v)]]

YamlLoad(doc) ==
    [openapi |-> doc.openapi, hasPaths |-> doc.hasPaths, paths |-> YamlPaths(doc.paths)]

\* json.dump(schema, f, indent=2): the text written
DumpOperation(op) == [i \in DOMAIN op |-> [k |-> JsonKey(op[i].k), v |-> op[i].v]]
DumpPathItem(item) ==
    [i \in DOMAIN item |-> [k |-> item[i].k, v |-> DumpOperation(item[i].v)]]

JsonDump(schema) ==
    [openapi |-> schema.openapi, hasPaths |-> schema.hasPaths,
     paths |-> [i \in DOMAIN schema.paths |-> [k |-> schema.paths[i].k, v |-> DumpPathItem(schema.paths[i].v)]]]

\* json.load(f): the mapping read back
LoadOperation(op) == Dict(op)
LoadPathItem(item) ==
    LET m == Dict(item) IN [i \in DOMAIN m |-> [k |-> m[i].k, v |-> LoadOperation(m[i].v)]]

JsonLoad(text) ==
    [openapi |-> text.openapi, hasPaths |-> text.hasPaths,
     paths |-> LET m == Dict(text.paths)
               IN [i \in DOMAIN m |-> [k |-> m[i].k, v |-> LoadPathItem(m[i].v)]]]

----------------------------------------------------------------------------
(* The documents the server may serve.                                     *)

Op200 == <<[k |-> IntKey(200), v |-> "Success"]>>

OpMixed ==
    <<[k |-> IntKey(200), v |-> "Success"],
      [k |-> StrKey(200), v |-> "OK"],
      [k |-> IntKey(500), v |-> "Error"]>>

\* paths out of order, a repeated path key, an upper-case method key
DocV1 ==
    [valid |-> TRUE, dumpable |-> TRUE, openapi |-> "3.0.0", hasPaths |-> TRUE,
     paths |-> <<
        [k |-> PathTest2, v |-> <<[k |-> MGet, v |-> Op200]>>],
        [k |-> PathHealth, v |-> <<[k |-> MGet, v |-> Op200]>>],
        [k |-> PathTest10, v |-> <<[k |-> MGet, v |-> OpMixed]>>],
        [k |-> PathTest1, v |-> <<[k |-> MGet, v |-> Op200], [k |-> MPost, v |-> OpMixed]>>],
        [k |-> PathTesting, v |-> <<[k |-> MGet, v |-> Op200]>>],
        [k |-> PathTest2, v |-> <<[k |-> MGetUpper, v |-> OpMixed]>>] >>]

DocV2 ==
    [valid |-> TRUE, dumpable |-> TRUE, openapi |-> "3.0.1", hasPaths |-> TRUE,
     paths |-> <<
        [k |-> PathTest1, v |-> <<[k |-> MGet, v |-> OpMixed]>>],
        [k |-> PathTest2, v |-> <<[k |-> MPost, v |-> Op200]>>] >>]

\* no "paths" key at all
DocNoPaths ==
    [valid |-> TRUE, dumpable |-> TRUE, openapi |-> "3.0.0", hasPaths |-> FALSE,
     paths |-> <<>>]

\* paths, none under /api/test/
DocNoTest ==
    [valid |-> TRUE, dumpable |-> TRUE, openapi |-> "3.0.0", hasPaths |-> TRUE,
     paths |-> <<
        [k |-> PathTesting, v |-> <<[k |-> MGet, v |-> Op200]>>],
        [k |-> PathHealth, v |-> <<[k |-> MGet, v |-> Op200]>>] >>]

\* text that yaml.safe_load rejects (yaml.YAMLError)
DocBadYaml ==
    [valid |-> FALSE, dumpable |-> TRUE, openapi |-> "", hasPaths |-> FALSE,
     paths |-> <<>>]

\* a document holding a YAML timestamp: json.dump raises TypeError on it
DocDated ==
    [valid |-> TRUE, dumpable |-> FALSE, openapi |-> "3.0.1", hasPaths |-> TRUE,
     paths |-> <<[k |-> PathTest1, v |-> <<[k |-> MGet, v |-> Op200]>>]>>]

ServedDocs == {DocV1, DocV2, DocNoPaths, DocNoTest, DocBadYaml, DocDated}

\* the outcome of requests.get + raise_for_status
NetOutcomes == {"ok", "ConnectionError", "Timeout", "HTTPError"}

QueryPaths == {PathTest1, PathTest2, PathHealth, PathTest9}
QueryMethods == {MGet, MGetUpper, MPost, MDelete}

----------------------------------------------------------------------------
(* SchemaManager (utils/schema_manager.py).                                *)

SchemaFile == "data/schemas/openapi_schema.json"

NoText == [openapi |-> "", hasPaths |-> FALSE, paths |-> <<>>]
NoSchema == NoText
NoDoc == [valid |-> FALSE, dumpable |-> FALSE, openapi |-> "", hasPaths |-> FALSE,
          paths |-> <<>>]

\* the file does not exist
NoFile == [exists |-> FALSE, whole |-> FALSE, text |-> NoText]

\* open(schema_file, 'w') has truncated the file and json.dump raised before
\* the closing brace: what the file holds is no JSON value
TruncatedFile == [exists |-> TRUE, whole |-> FALSE, text |-> NoText]

CacheHitWhenForced(f, force) == f.exists /\ force

\* if self.schema_file.exists() and not force
CacheHit(f, force) == f.exists /\ ~force

FileOpenedBeforeGet(f) == TruncatedFile

\* requests.get or raise_for_status raised: the file was not opened
FileAfterFailedGet(f) == f

SavedFileKeepsOld(f, schema) ==
    IF f.exists THEN f ELSE [exists |-> TRUE, whole |-> TRUE, text |-> JsonDump(schema)]

\* with open(self.schema_file, 'w') as f: json.dump(schema, f, indent=2)
SavedFile(f, schema) == [exists |-> TRUE, whole |-> TRUE, text |-> JsonDump(schema)]

\* what a call did and gave back; the ret* fields are filled on a return
Outcome(f, raised, gets, hit, downloads) ==
    [file |-> f, raised |-> raised, gets |-> gets, hit |-> hit, downloads |-> downloads,
     retKind |-> "none", retPath |-> "", retSchema |-> NoSchema, retOp |-> <<>>,
     retList |-> <<>>]

DownloadSchemaRetrying(f, force, doc, net) ==
    IF CacheHit(f, force)
    THEN [Outcome(f, "none", 0, TRUE, 1)
            EXCEPT !.retKind = "path", !.retPath = SchemaFile]
    ELSE IF net # "ok"
    THEN Outcome(FileAfterFailedGet(f), net, 2, FALSE, 1)
    ELSE IF ~doc.valid
    THEN Outcome(f, "YAMLError", 1, FALSE, 1)
    ELSE IF ~doc.dumpable
    THEN Outcome(TruncatedFile, "TypeError", 1, FALSE, 1)
    ELSE [Outcome(SavedFile(f, YamlLoad(doc)), "none", 1, FALSE, 1)
            EXCEPT !.retKind = "path", !.retPath = SchemaFile]

\* download_schema(force), with `doc` served and `net` the fate of the GET
DownloadSchema(f, force, doc, net) ==
    IF CacheHit(f, force)
    THEN [Outcome(f, "none", 0, TRUE, 1)
            EXCEPT !.retKind = "path", !.retPath = SchemaFile]
    ELSE IF net # "ok"
    THEN Outcome(FileAfterFailedGet(f), net, 1, FALSE, 1)
    ELSE IF ~doc.valid
    THEN Outcome(f, "YAMLError", 1, FALSE, 1)
    ELSE IF ~doc.dumpable
    THEN Outcome(TruncatedFile, "TypeError", 1, FALSE, 1)
    ELSE [Outcome(SavedFile(f, YamlLoad(doc)), "none", 1, FALSE, 1)
            EXCEPT !.retKind = "path", !.retPath = SchemaFile]

NeedsDownloadNever(f) == FALSE

\* if not self.schema_file.exists()
NeedsDownload(f) == ~f.exists

\* json.load(f) of get_schema
LoadedSchema(text) == JsonLoad(text)

\* get_schema()
GetSchema(f, doc, net) ==
    LET d == IF NeedsDownload(f)
             THEN DownloadSchema(f, FALSE, doc, net)
             ELSE Outcome(f, "none", 0, FALSE, 0)
        quiet == [d EXCEPT !.retKind = "none", !.retPath = ""]
    IN  IF d.raised # "none" THEN quiet
        ELSE IF ~d.file.exists THEN [quiet EXCEPT !.raised = "FileNotFoundError"]
        ELSE IF ~d.file.whole THEN [quiet EXCEPT !.raised = "JSONDecodeError"]
        ELSE [quiet EXCEPT !.retKind = "schema",
                           !.retSchema = LoadedSchema(d.file.text)]

\* schema.get("paths", {})
PathsOf(schema) == IF schema.hasPaths THEN schema.paths ELSE <<>>

MethodKeyVerbatim(method) == method

\* method.lower()
MethodKey(method) == Lower(method)

\* get_endpoint_schema(path, method)
GetEndpointSchema(f, doc, net, path, method) ==
    LET g == GetSchema(f, doc, net)
        miss == [g EXCEPT !.retKind = "none", !.retSchema = NoSchema,
                          !.raised = "ValueError"]
        paths == PathsOf(g.retSchema)
    IN  IF g.raised # "none" THEN g
        ELSE IF ~HasKey(paths, path) THEN miss
        ELSE IF ~HasKey(Get(paths, path), MethodKey(method)) THEN miss
        ELSE [g EXCEPT !.retKind = "operation", !.retSchema = NoSchema,
                       !.retOp = Get(Get(paths, path), MethodKey(method))]

\* path.startswith("/api/test/")
IsTestEndpoint(path) == StartsWith(path, TestPrefix)

\* get_all_test_endpoints()
GetAllTestEndpoints(f, doc, net) ==
    LET g == GetSchema(f, doc, net)
    IN  IF g.raised # "none" THEN g
        ELSE [g EXCEPT !.retKind = "list", !.retSchema = NoSchema,
                       !.retList = Sorted(SelectSeq(Keys(PathsOf(g.retSchema)),
                                                    IsTestEndpoint))]

\* the record of a call: its arguments, the file and the served document when
\* it was made, the fate of its GET if it issued one, what it did and returned
Called(op, force, path, method, net, r) ==
    [op |-> op, force |-> force, path |-> path, method |-> method, before |-> file,
     served |-> server, net |-> IF r.gets > 0 THEN net ELSE "none",
     downloads |-> r.downloads, hit |-> r.hit, gets |-> r.gets, raised |-> r.raised,
     retKind |-> r.retKind, retPath |-> r.retPath,
     retSchema |-> r.retSchema, retOp |-> r.retOp, retList |-> r.retList]

NoCall ==
    [op |-> "none", force |-> FALSE, path |-> <<>>, method |-> <<>>, before |-> NoFile,
     served |-> NoDoc, net |-> "none",
     downloads |-> 0, hit |-> FALSE, gets |-> 0, raised |-> "none",
     retKind |-> "none", retPath |-> "", retSchema |-> NoSchema, retOp |-> <<>>,
     retList |-> <<>>]

\* schemas cached by an earlier session are still on disk
EarlierCaches == {SavedFile(NoFile, YamlLoad(d)) : d \in {DocV1, DocNoPaths}}

InitSchema ==
    /\ server \in ServedDocs
    /\ file \in {NoFile} \cup EarlierCaches
    /\ call = NoCall
    /\ endpoint_results = 0
    /\ dicts = <<>>
    /\ session = [test |-> "none", pc |-> "session", n |-> 0]
    /\ base = [status_codes |-> <<>>, response_times |-> <<>>, test_count |-> 0,
               passed |-> 0, failed |-> 0]
    /\ queue = <<>>
    /\ futures = <<>>
    /\ workers = EmptyBag
    /\ results = <<>>
    /\ yielded = {}
    /\ aggregator = <<>>
    /\ entries = <<>>
    /\ lists = <<>>
    /\ accessed = {}
    /\ phase = "created"
    /\ log = <<>>
    /\ running = NotRunning
    /\ trial = NoTest
    /\ sent = <<>>
    /\ verdict = "none"
    /\ fixture = NoFixture
    /\ test_logger = None
    /\ registry = NoLoggers
    /\ logger_calls = <<>>

\* the service publishes another document
ServerChanges ==
    /\ \E d \in ServedDocs \ {server} : server' = d
    /\ UNCHANGED <<file, call>>
    /\ UNCHANGED <<poolVars, sessionVars, testVars, setupVars>>

CallDownloadSchema ==
    \E force \in BOOLEAN, net \in NetOutcomes :
        LET r == DownloadSchema(file, force, server, net)
        IN  /\ file' = r.file
            /\ call' = Called("download_schema", force, <<>>, <<>>, net, r)
            /\ UNCHANGED server
            /\ UNCHANGED <<poolVars, sessionVars, testVars, setupVars>>

CallGetSchema ==
    \E net \in NetOutcomes :
        LET r == GetSchema(file, server, net)
        IN  /\ file' = r.file
            /\ call' = Called("get_schema", FALSE, <<>>, <<>>, net, r)
            /\ UNCHANGED server
            /\ UNCHANGED <<poolVars, sessionVars, testVars, setupVars>>

CallGetEndpointSchema ==
    \E net \in NetOutcomes, path \in QueryPaths, method \in QueryMethods :
        LET r == GetEndpointSchema(file, server, net, path, method)
        IN  /\ file' = r.file
            /\ call' = Called("get_endpoint_schema", FALSE, path, method, net, r)
            /\ UNCHANGED server
            /\ UNCHANGED <<poolVars, sessionVars, testVars, setupVars>>

CallGetAllTestEndpoints ==
    \E net \in NetOutcomes :
        LET r == GetAllTestEndpoints(file, server, net)
        IN  /\ file' = r.file
            /\ call' = Called("get_all_test_endpoints", FALSE, <<>>, <<>>, net, r)
            /\ UNCHANGED server
            /\ UNCHANGED <<poolVars, sessionVars, testVars, setupVars>>

NextSchema ==
    \/ ServerChanges
    \/ CallDownloadSchema
    \/ CallGetSchema
    \/ CallGetEndpointSchema
    \/ CallGetAllTestEndpoints

SpecSchema == InitSchema /\ [][NextSchema]_vars

(***************************************************************************)
(* conftest.py: the fixtures that hand the SchemaManager to the tests      *)
(***************************************************************************)

\* except Exception as e: logger.warning(...); return manager
Swallowed(r) == [r EXCEPT !.raised = "none", !.retKind = "manager", !.retPath = ""]

\* the session-scoped schema_manager fixture: the manager is built and
\* download_schema() is tried once; whatever it raises is logged only
SchemaManagerFixture ==
    /\ ~fixture.made
    /\ \E net \in NetOutcomes :
        LET r == DownloadSchema(file, FALSE, server, net)
        IN  /\ file' = r.file
            /\ call' = Called("schema_manager", FALSE, <<>>, <<>>, net, Swallowed(r))
            /\ fixture' = [made |-> TRUE, raised |-> r.raised, left |-> r.file]
    /\ UNCHANGED <<server, test_logger, registry, logger_calls>>
    /\ UNCHANGED <<poolVars, sessionVars, testVars>>

\* the openapi_schema fixture: schema_manager.get_schema()
OpenapiSchemaFixture == fixture.made /\ CallGetSchema

\* the function the endpoint_schema fixture returns, called by a test
EndpointSchemaFixture == fixture.made /\ CallGetEndpointSchema

\* a test that takes schema_manager and lists the test endpoints
ListTestEndpoints == fixture.made /\ CallGetAllTestEndpoints

\* one session: the document served stays the one Init chose
NextFixtures ==
    \/ SchemaManagerFixture
    \/ OpenapiSchemaFixture
    \/ EndpointSchemaFixture
    \/ ListTestEndpoints

SpecFixtures == InitSchema /\ [][NextFixtures]_vars

----------------------------------------------------------------------------
(* The result aggregator (conftest.py) and the thread-pool tests.          *)
(* One endpoint_path is under test.  test_concurrent_requests runs 10      *)
(* calls on 5 workers and test_medium_stress_concurrent 200 on 20; the     *)
(* model runs TotalRequests calls on Concurrency workers.                  *)

TotalRequests == 2
Concurrency == 2

\* resp.status_code of a response; a raised RequestException is recorded as 0
HTTP_OK == 200
HTTP_INTERNAL_ERROR == 500
Raised == 0
Statuses == {HTTP_OK, HTTP_INTERNAL_ERROR}

PoolTests == {"test_concurrent_requests", "test_medium_stress_concurrent"}

\* the default factory's value
EmptyEntry ==
    [status_codes |-> <<>>, response_times |-> <<>>, test_count |-> 0,
     passed |-> 0, failed |-> 0]

\* what _endpoint_results holds for endpoint_path (no entry reads as empty)
CurrentEntry == IF endpoint_results = 0 THEN EmptyEntry ELSE dicts[endpoint_results]

Counter(e, key) ==
    CASE key = "test_count" -> e.test_count
      [] key = "passed" -> e.passed
      [] key = "failed" -> e.failed

SetCounter(e, key, n) ==
    CASE key = "test_count" -> [e EXCEPT !.test_count = n]
      [] key = "passed" -> [e EXCEPT !.passed = n]
      [] key = "failed" -> [e EXCEPT !.failed = n]

\* "passed" if the status is 200, else "failed" (the except branch: "failed")
VerdictKey(status) == IF status = HTTP_OK THEN "passed" ELSE "failed"

\* the elapsed time (seconds) measured for a response: the value is not modelled,
\* a sample counts as an element of response_times
Elapsed(status) == 0

IdleWorker ==
    [pc |-> "idle", i |-> 0, status |-> 0, ref |-> 0, tmp |-> 0, miss |-> FALSE]

NoResult == [i |-> 0, status |-> 0, ok |-> FALSE]

\* the dict do_request returns: line 151, and line 157 with status 0
ResultOf(i, status) == [i |-> i, status |-> status, ok |-> (status = HTTP_OK)]

\* a session starts: no entry yet; the schema manager is not used by these tests
InitPool ==
    /\ server = DocNoPaths
    /\ file = NoFile
    /\ call = NoCall
    /\ endpoint_results = 0
    /\ dicts = <<>>
    /\ session = [test |-> "none", pc |-> "session", n |-> 0]
    /\ base = EmptyEntry
    /\ queue = <<>>
    /\ futures = <<>>
    /\ workers = EmptyBag
    /\ results = <<>>
    /\ yielded = {}
    /\ aggregator = <<>>
    /\ entries = <<>>
    /\ lists = <<>>
    /\ accessed = {}
    /\ phase = "created"
    /\ log = <<>>
    /\ running = NotRunning
    /\ trial = NoTest
    /\ sent = <<>>
    /\ verdict = "none"
    /\ fixture = NoFixture
    /\ test_logger = None
    /\ registry = NoLoggers
    /\ logger_calls = <<>>

\* the entry after one single-threaded recording of a response:
\* append status, append time, test_count += 1, passed or failed += 1
Recorded(e, status, time) ==
    LET a == [e EXCEPT !.status_codes = Append(@, status),
                       !.response_times = Append(@, time),
                       !.test_count = @ + 1]
    IN  SetCounter(a, VerdictKey(status), Counter(a, VerdictKey(status)) + 1)

\* _endpoint_results[endpoint_path] = e on the main thread, creating the entry
StoreEntry(e) ==
    IF endpoint_results = 0
    THEN /\ dicts' = Append(dicts, e)
         /\ endpoint_results' = Len(dicts) + 1
    ELSE /\ dicts' = [dicts EXCEPT ![endpoint_results] = e]
         /\ UNCHANGED endpoint_results

\* an earlier test of the session has recorded a response (test_basic_get)
TestBasicGet ==
    /\ session.pc = "session"
    /\ endpoint_results = 0
    /\ \E status \in Statuses : StoreEntry(Recorded(CurrentEntry, status, Elapsed(status)))
    /\ UNCHANGED <<session, base, queue, futures, workers, results, yielded>>
    /\ UNCHANGED <<schemaVars, sessionVars, testVars, setupVars>>

\* a thread-pool test starts: with ThreadPoolExecutor(max_workers=concurrency)
StartTest ==
    /\ session.pc = "session"
    /\ \E t \in PoolTests : session' = [test |-> t, pc |-> "submit", n |-> 0]
    /\ base' = CurrentEntry
    /\ workers' = [w \in {IdleWorker} |-> Concurrency]
    /\ UNCHANGED <<endpoint_results, dicts, queue, futures, results, yielded>>
    /\ UNCHANGED <<schemaVars, sessionVars, testVars, setupVars>>

\* futures = [ex.submit(do_request, i) for i in range(total_requests)]
Submit ==
    /\ session.pc = "submit"
    /\ futures' = Append(futures, [state |-> "pending", exception |-> FALSE,
                                   result |-> NoResult])
    /\ queue' = Append(queue, Len(futures))
    /\ session' = [session EXCEPT
                     !.pc = IF Len(futures) + 1 = TotalRequests THEN "collect" ELSE @]
    /\ UNCHANGED <<endpoint_results, dicts, base, workers, results, yielded>>
    /\ UNCHANGED <<schemaVars, sessionVars, testVars, setupVars>>

\* the worker threads, each given by its record
Threads == BagToSet(workers)

\* worker thread w (its record) goes on as record v
Become(w, v) == (workers (-) SetToBag({w})) (+) SetToBag({v})

\* where do_request goes after requests.get
AfterGet(test, status) ==
    IF test = "test_medium_stress_concurrent" THEN "return"
    ELSE IF status = Raised THEN "count_read"
    ELSE "append_status"

\* a worker thread takes the next work item off the queue and runs do_request(i)
\* up to the end of resp = requests.get(...): a response, or a RequestException
Request ==
    \E w \in Threads :
        /\ w.pc = "idle"
        /\ queue # <<>>
        /\ \E status \in Statuses \cup {Raised} :
            /\ workers' = Become(w, [IdleWorker EXCEPT !.i = Head(queue), !.status = status,
                                                       !.pc = AfterGet(session.test, status)])
            /\ futures' = [futures EXCEPT ![Head(queue) + 1].exception = (status = Raised)]
        /\ queue' = Tail(queue)
        /\ UNCHANGED <<endpoint_results, dicts, session, base, results, yielded>>
        /\ UNCHANGED <<schemaVars, sessionVars, testVars, setupVars>>

\* the statements that start by evaluating _endpoint_results[endpoint_path]
AccessPcs == {"append_status", "append_time", "count_read", "verdict_read"}

\* defaultdict.__missing__: the key is absent and the factory (a lambda, so
\* bytecode during which the thread can be switched out) is being called
EnterMissing ==
    \E w \in Threads :
        /\ w.pc \in AccessPcs
        /\ endpoint_results = 0
        /\ ~w.miss
        /\ workers' = Become(w, [w EXCEPT !.miss = TRUE])
        /\ UNCHANGED <<endpoint_results, dicts, session, base, queue, futures, results, yielded>>
        /\ UNCHANGED <<schemaVars, sessionVars, testVars, setupVars>>

\* _endpoint_results[endpoint_path] can be evaluated without calling the factory,
\* or the factory has returned
Resolved(w) == w.miss \/ endpoint_results # 0

\* the dict the lookup gives: the factory's fresh one after a miss (which
\* __missing__ stores under the key, whatever is there by now), else the entry
Target(w) == IF w.miss THEN Len(dicts) + 1 ELSE endpoint_results
Looked(w) == IF w.miss THEN Append(dicts, EmptyEntry) ELSE dicts

\* a dict that neither the mapping nor a thread in the middle of `+= 1` refers
\* to is freed: its content is no state of the program any more
Collected(ds, root, ws) ==
    [k \in DOMAIN ds |->
        IF k = root \/ \E x \in BagToSet(ws) : x.ref = k THEN ds[k] ELSE EmptyEntry]

\* _endpoint_results[endpoint_path]["status_codes"].append(resp.status_code)
AppendStatus ==
    \E w \in Threads :
        /\ w.pc = "append_status"
        /\ Resolved(w)
        /\ workers' = Become(w, [w EXCEPT !.pc = "append_time", !.miss = FALSE])
        /\ endpoint_results' = Target(w)
        /\ dicts' = Collected([Looked(w) EXCEPT ![Target(w)].status_codes = Append(@, w.status)],
                              Target(w), workers')
        /\ UNCHANGED <<session, base, queue, futures, results, yielded>>
        /\ UNCHANGED <<schemaVars, sessionVars, testVars, setupVars>>

\* _endpoint_results[endpoint_path]["response_times"].append(elapsed)
AppendTime ==
    \E w \in Threads :
        /\ w.pc = "append_time"
        /\ Resolved(w)
        /\ workers' = Become(w, [w EXCEPT !.pc = "count_read", !.miss = FALSE])
        /\ endpoint_results' = Target(w)
        /\ dicts' = Collected([Looked(w) EXCEPT ![Target(w)].response_times = Append(@, Elapsed(w.status))],
                              Target(w), workers')
        /\ UNCHANGED <<session, base, queue, futures, results, yielded>>
        /\ UNCHANGED <<schemaVars, sessionVars, testVars, setupVars>>

\* `d[key] += 1`, first half: evaluate d = _endpoint_results[endpoint_path]
\* and load d[key]
ReadCounter(w, pc, key, next) ==
    /\ w.pc = pc
    /\ Resolved(w)
    /\ workers' = Become(w, [w EXCEPT !.pc = next, !.miss = FALSE, !.ref = Target(w),
                                      !.tmp = Counter(Looked(w)[Target(w)], key)])
    /\ endpoint_results' = Target(w)
    /\ dicts' = Collected(Looked(w), Target(w), workers')
    /\ UNCHANGED <<session, base, queue, futures, results, yielded>>
    /\ UNCHANGED <<schemaVars, sessionVars, testVars, setupVars>>

\* `d[key] += 1`, second half: store the loaded value plus one into d[key]
WriteCounter(w, pc, key, next) ==
    /\ w.pc = pc
    /\ workers' = Become(w, [w EXCEPT !.pc = next, !.ref = 0, !.tmp = 0])
    /\ dicts' = Collected([dicts EXCEPT ![w.ref] = SetCounter(@, key, w.tmp + 1)],
                          endpoint_results, workers')
    /\ UNCHANGED <<endpoint_results, session, base, queue, futures, results, yielded>>
    /\ UNCHANGED <<schemaVars, sessionVars, testVars, setupVars>>

\* _endpoint_results[endpoint_path]["test_count"] += 1
CountRead ==
    \E w \in Threads : ReadCounter(w, "count_read", "test_count", "count_write")
CountWrite ==
    \E w \in Threads : WriteCounter(w, "count_write", "test_count", "verdict_read")

\* _endpoint_results[endpoint_path]["passed"] += 1, or ["failed"] += 1
VerdictRead ==
    \E w \in Threads :
        ReadCounter(w, "verdict_read", VerdictKey(w.status), "verdict_write")
VerdictWrite ==
    \E w \in Threads :
        WriteCounter(w, "verdict_write", VerdictKey(w.status), "return")

\* do_request returns its result dict: the future is done, the worker free
Return ==
    \E w \in Threads :
        /\ w.pc = "return"
        /\ futures' = [futures EXCEPT
                         ![w.i + 1].state = "done",
                         ![w.i + 1].result = ResultOf(w.i, w.status)]
        /\ workers' = Become(w, IdleWorker)
        /\ UNCHANGED <<endpoint_results, dicts, session, base, queue, results, yielded>>
        /\ UNCHANGED <<schemaVars, sessionVars, testVars, setupVars>>

FirstYielded == yielded # {}

\* as_completed(futures) is exhausted: every future has been handed over
AllYielded == Cardinality(yielded) = TotalRequests

\* for fut in as_completed(futures): results.append(fut.result())
Yield ==
    /\ session.pc = "collect"
    /\ ~AllYielded
    /\ \E k \in DOMAIN futures :
        /\ futures[k].state = "done"
        /\ k \notin yielded
        /\ yielded' = yielded \cup {k}
        /\ results' = Append(results, futures[k].result)
    /\ UNCHANGED <<endpoint_results, dicts, session, base, queue, futures, workers>>
    /\ UNCHANGED <<schemaVars, sessionVars, testVars, setupVars>>

\* the with block exits: the loop has ended and shutdown(wait=True) has
\* joined the workers
ExitPool ==
    /\ session.pc = "collect"
    /\ AllYielded
    /\ queue = <<>>
    /\ Threads = {IdleWorker}
    /\ session' = [session EXCEPT
                     !.pc = IF session.test = "test_medium_stress_concurrent"
                            THEN "record" ELSE "done"]
    /\ UNCHANGED <<endpoint_results, dicts, base, queue, futures, workers, results, yielded>>
    /\ UNCHANGED <<schemaVars, sessionVars, testVars, setupVars>>

\* test_medium_stress_concurrent, after the pool: for result in results:
\* append the status, test_count += 1, passed or failed += 1
RecordedStress(e, result) ==
    LET a == [e EXCEPT !.status_codes = Append(@, result.status),
                       !.test_count = @ + 1]
        key == IF result.ok THEN "passed" ELSE "failed"
    IN  SetCounter(a, key, Counter(a, key) + 1)

RecordResult ==
    /\ session.pc = "record"
    /\ session.n < Len(results)
    /\ StoreEntry(RecordedStress(CurrentEntry, results[session.n + 1]))
    /\ session' = [session EXCEPT !.n = @ + 1]
    /\ UNCHANGED <<base, queue, futures, workers, results, yielded>>
    /\ UNCHANGED <<schemaVars, sessionVars, testVars, setupVars>>

FinishRecording ==
    /\ session.pc = "record"
    /\ session.n = Len(results)
    /\ session' = [session EXCEPT !.pc = "done"]
    /\ UNCHANGED <<endpoint_results, dicts, base, queue, futures, workers, results, yielded>>
    /\ UNCHANGED <<schemaVars, sessionVars, testVars, setupVars>>

NextPool ==
    \/ TestBasicGet
    \/ StartTest
    \/ Submit
    \/ Request
    \/ EnterMissing
    \/ AppendStatus
    \/ AppendTime
    \/ CountRead
    \/ CountWrite
    \/ VerdictRead
    \/ VerdictWrite
    \/ Return
    \/ Yield
    \/ ExitPool
    \/ RecordResult
    \/ FinishRecording

SpecPool == InitPool /\ [][NextPool]_vars

----------------------------------------------------------------------------
(* The aggregator as a whole: conftest.py's _endpoint_results, a           *)
(* defaultdict whose factory makes a dict holding two new lists.  Dicts    *)
(* and lists are objects with an identity: entries and lists are heaps,    *)
(* and a reference is an index into its heap.                              *)

\* TEST_ENDPOINT_1, TEST_ENDPOINT_2 of the constants module
SessionEndpoints == {PathTest1, PathTest2}

\* total_requests-like caps of the model: iterations of the light stress
\* loop (50 in the code) and recordings made in one session
Iterations == 2
MaxRecorded == 4

Store ==
    [aggregator |-> aggregator, entries |-> entries, lists |-> lists,
     accessed |-> accessed]

HasEntry(agg, key) == \E n \in DOMAIN agg : agg[n].k = key
EntryRef(agg, key) == agg[CHOOSE n \in DOMAIN agg : agg[n].k = key].ref

SharedListsFactory(ls) ==
    IF ls = <<>>
    THEN [entry |-> [status_codes |-> 1, response_times |-> 2, test_count |-> 0,
                     passed |-> 0, failed |-> 0],
          lists |-> << <<>>, <<>> >>]
    ELSE [entry |-> [status_codes |-> 1, response_times |-> 2, test_count |-> 0,
                     passed |-> 0, failed |-> 0],
          lists |-> ls]

\* lambda: {"status_codes": [], "response_times": [], "test_count": 0, ...}:
\* each call builds a new dict and two new lists
DefaultFactory(ls) ==
    [entry |-> [status_codes |-> Len(ls) + 1, response_times |-> Len(ls) + 2,
                test_count |-> 0, passed |-> 0, failed |-> 0],
     lists |-> ls \o << <<>>, <<>> >>]

\* _endpoint_results[key]: the entry, made by the factory when the key is missing
Subscript(st, key) ==
    IF HasEntry(st.aggregator, key)
    THEN [st EXCEPT !.accessed = @ \cup {key}]
    ELSE LET made == DefaultFactory(st.lists)
         IN  [aggregator |-> Append(st.aggregator,
                                    [k |-> key, ref |-> Len(st.entries) + 1]),
              entries |-> Append(st.entries, made.entry),
              lists |-> made.lists,
              accessed |-> st.accessed \cup {key}]

\* _endpoint_results[key][field].append(x)
AppendTo(st, key, field, x) ==
    LET s1 == Subscript(st, key)
        e == s1.entries[EntryRef(s1.aggregator, key)]
        l == IF field = "status_codes" THEN e.status_codes ELSE e.response_times
    IN  [s1 EXCEPT !.lists[l] = Append(@, x)]

\* _endpoint_results[key][field] += 1
Increment(st, key, field) ==
    LET s1 == Subscript(st, key)
        r == EntryRef(s1.aggregator, key)
    IN  [s1 EXCEPT !.entries[r] = SetCounter(@, field, Counter(@, field) + 1)]

\* the statements recording a response: two appends, test_count, passed or failed
RecordResponse(st, key, status) ==
    Increment(
        Increment(
            AppendTo(AppendTo(st, key, "status_codes", status),
                     key, "response_times", Elapsed(status)),
            key, "test_count"),
        key, VerdictKey(status))

\* the statements of an except clause: test_count and failed
RecordFailure(st, key) == Increment(Increment(st, key, "test_count"), key, "failed")

\* one pass of the recording loop of test_medium_stress_concurrent, run by
\* the main thread after the pool: the status (0 for an exception),
\* test_count, passed or failed; no response time goes to the aggregator
RecordStressResult(st, key, outcome) ==
    Increment(
        Increment(AppendTo(st, key, "status_codes", outcome.status),
                  key, "test_count"),
        key, IF outcome.raised = "none" /\ outcome.status = HTTP_OK
             THEN "passed" ELSE "failed")

RecordFutureResultUncounted(st, key, outcome) ==
    IF outcome.raised = "none" /\ outcome.status = HTTP_OK
    THEN Increment(
             AppendTo(AppendTo(st, key, "status_codes", outcome.status),
                      key, "response_times", Elapsed(outcome.status)),
             key, "passed")
    ELSE IF outcome.raised = "none"
         THEN AppendTo(Increment(st, key, "failed"),
                       key, "status_codes", outcome.status)
         ELSE Increment(st, key, "failed")

\* one pass of the as_completed loop of test_endpoint_1_discovery's
\* test_concurrent_requests, run by the main thread: test_count first; a 200
\* adds its status, its time and passed; anything else adds failed, and its
\* status unless the request raised (status "ERROR")
RecordFutureResult(st, key, outcome) ==
    LET counted == Increment(st, key, "test_count")
    IN  IF outcome.raised = "none" /\ outcome.status = HTTP_OK
        THEN Increment(
                 AppendTo(AppendTo(counted, key, "status_codes", outcome.status),
                          key, "response_times", Elapsed(outcome.status)),
                 key, "passed")
        ELSE IF outcome.raised = "none"
             THEN AppendTo(Increment(counted, key, "failed"),
                           key, "status_codes", outcome.status)
             ELSE Increment(counted, key, "failed")

\* what the entry of a key holds, lists by content
ValueOf(st, key) ==
    LET e == st.entries[EntryRef(st.aggregator, key)]
    IN  [status_codes |-> st.lists[e.status_codes],
         response_times |-> st.lists[e.response_times],
         test_count |-> e.test_count, passed |-> e.passed, failed |-> e.failed]

\* the entry a test finds for a key before it records (none reads as empty)
FoundEntry(st, key) == IF HasEntry(st.aggregator, key) THEN ValueOf(st, key) ELSE EmptyEntry

\* x.split('/')[-1]: what follows the last slash
LastSegment(path) ==
    LET slashes == {n \in DOMAIN path : path[n] = 47}
        from == IF slashes = {} THEN 1 ELSE MaxOf(slashes) + 1
    IN  SubSeq(path, from, Len(path))

\* int(s) of a string of decimal digits
RECURSIVE ParseInt(_)
ParseInt(s) ==
    IF s = <<>> THEN 0
    ELSE ParseInt(SubSeq(s, 1, Len(s) - 1)) * 10 + (s[Len(s)] - 48)

\* key=lambda x: int(x.split('/')[-1])
EndpointNumber(path) == ParseInt(LastSegment(path))

RECURSIVE InsertByNumber(_, _)
InsertByNumber(x, l) ==
    IF l = <<>> THEN <<x>>
    ELSE IF EndpointNumber(x) < EndpointNumber(Head(l)) THEN <<x>> \o l
    ELSE <<Head(l)>> \o InsertByNumber(x, Tail(l))

RECURSIVE SortedByNumberFrom(_, _)
SortedByNumberFrom(l, acc) ==
    IF l = <<>> THEN acc ELSE SortedByNumberFrom(Tail(l), InsertByNumber(Head(l), acc))

AllEndpoints(agg) ==
    SortedByNumberFrom(<<PathTest2, PathTest1>>, <<>>)

\* sorted(_endpoint_results.keys(), key=...): the recorded keys, by number
SortedEndpoints(agg) ==
    SortedByNumberFrom([n \in DOMAIN agg |-> agg[n].k], <<>>)

\* status_distribution: how often each code occurs in status_codes
StatusDistribution(codes) ==
    [c \in {codes[n] : n \in DOMAIN codes}
        |-> Cardinality({n \in DOMAIN codes : codes[n] = c})]

StatusTextAnySuccessOk(codes) ==
    IF \E n \in DOMAIN codes : codes[n] = 200 THEN "OK" ELSE "FAILED"

\* the chain of lines 159-170: OK, UNSTABLE or FAILED
StatusText(codes) ==
    LET has_success == \E n \in DOMAIN codes : codes[n] = 200
        status_distribution == StatusDistribution(codes)
    IN  IF /\ has_success
           /\ Cardinality(DOMAIN status_distribution) = 1
           /\ 200 \in DOMAIN status_distribution
        THEN "OK"
        ELSE IF has_success THEN "UNSTABLE"
        ELSE "FAILED"

\* the per-endpoint block logged for one endpoint
SummaryLine(st, key) ==
    LET data == ValueOf(st, key)
    IN  [endpoint |-> key, status_text |-> StatusText(data.status_codes),
         tests |-> data.test_count, passed |-> data.passed, failed |-> data.failed,
         observed |-> StatusDistribution(data.status_codes)]

RECURSIVE SumOver(_, _)
SumOver(seq, field) ==
    IF seq = <<>> THEN 0
    ELSE Counter(Head(seq), field) + SumOver(Tail(seq), field)

\* what _print_endpoint_discovery_summary logs for a non-empty aggregator
Summary(st, keys) ==
    LET lines == [n \in DOMAIN keys |-> SummaryLine(st, keys[n])]
        successful_endpoints == {n \in DOMAIN lines : lines[n].status_text = "OK"}
        failed_endpoints == DOMAIN lines \ successful_endpoints
        codes(n) == ValueOf(st, keys[n]).status_codes
        has200(n) == \E m \in DOMAIN codes(n) : codes(n)[m] = 200
    IN  [lines |-> lines,
         stable |-> Cardinality(successful_endpoints),
         unstable |-> Cardinality({n \in failed_endpoints :
                                     codes(n) # <<>> /\ has200(n)}),
         failed |-> Cardinality({n \in failed_endpoints :
                                   codes(n) # <<>> /\ ~has200(n)}),
         total_tests |-> SumOver(st.entries, "test_count"),
         total_passed |-> SumOver(st.entries, "passed")]

\* data = _endpoint_results[endpoint] for each endpoint of the loop, in turn
RECURSIVE Subscripted(_, _)
Subscripted(st, keys) ==
    IF keys = <<>> THEN st ELSE Subscripted(Subscript(st, Head(keys)), Tail(keys))

\* the sum of test_count over the entries: the recordings made so far
TotalRecorded == SumOver(entries, "test_count")

\* the exceptions requests.get raises here, each with its base classes
GetExceptions == {"ReadTimeout", "ConnectTimeout", "ConnectionError"}
ExceptionBases(exc) ==
    CASE exc = "ReadTimeout" -> {"ReadTimeout", "Timeout", "RequestException"}
      [] exc = "ConnectTimeout" ->
            {"ConnectTimeout", "ConnectionError", "Timeout", "RequestException"}
      [] exc = "ConnectionError" -> {"ConnectionError", "RequestException"}

\* what requests.get does: a response with its status code, or an exception
GetOutcomes ==
    {[status |-> c, raised |-> "none"] : c \in Statuses}
        \cup {[status |-> Raised, raised |-> exc] : exc \in GetExceptions}

\* the except clause of the light stress loop that handles exc: the first
\* one whose class is a base of it
LightStressClause(exc) ==
    IF "Timeout" \in ExceptionBases(exc) THEN "timeout" ELSE "error"

IteratedTimeoutAlsoError(r, outcome) ==
    IF outcome.raised = "none"
    THEN IF outcome.status = 200
         THEN [r EXCEPT !.i = @ + 1, !.successes = @ + 1]
         ELSE [r EXCEPT !.i = @ + 1, !.errors = @ + 1]
    ELSE IF LightStressClause(outcome.raised) = "timeout"
         THEN [r EXCEPT !.i = @ + 1, !.timeouts = @ + 1, !.errors = @ + 1]
         ELSE [r EXCEPT !.i = @ + 1, !.errors = @ + 1]

\* the locals after one pass of the loop body of test_light_stress_sequential
Iterated(r, outcome) ==
    IF outcome.raised = "none"
    THEN IF outcome.status = 200
         THEN [r EXCEPT !.i = @ + 1, !.successes = @ + 1]
         ELSE [r EXCEPT !.i = @ + 1, !.errors = @ + 1]
    ELSE IF LightStressClause(outcome.raised) = "timeout"
         THEN [r EXCEPT !.i = @ + 1, !.timeouts = @ + 1]
         ELSE [r EXCEPT !.i = @ + 1, !.errors = @ + 1]

\* the aggregator, its entries and lists become those of st
SetStore(st) ==
    /\ aggregator' = st.aggregator
    /\ entries' = st.entries
    /\ lists' = st.lists
    /\ accessed' = st.accessed

\* a session: no aggregator entry, the session fixtures not yet set up
InitSession ==
    /\ server = DocNoPaths
    /\ file = NoFile
    /\ call = NoCall
    /\ endpoint_results = 0
    /\ dicts = <<>>
    /\ session = [test |-> "none", pc |-> "session", n |-> 0]
    /\ base = EmptyEntry
    /\ queue = <<>>
    /\ futures = <<>>
    /\ workers = EmptyBag
    /\ results = <<>>
    /\ yielded = {}
    /\ aggregator = <<>>
    /\ entries = <<>>
    /\ lists = <<>>
    /\ accessed = {}
    /\ phase = "created"
    /\ log = <<>>
    /\ running = NotRunning
    /\ trial = NoTest
    /\ sent = <<>>
    /\ verdict = "none"
    /\ fixture = NoFixture
    /\ test_logger = None
    /\ registry = NoLoggers
    /\ logger_calls = <<>>

\* log_session_start up to its yield: set up before the first test
SessionStart ==
    /\ phase = "created"
    /\ phase' = "tests"
    /\ UNCHANGED <<aggregator, entries, lists, accessed, log, running>>
    /\ UNCHANGED <<schemaVars, poolVars, testVars, setupVars>>

\* test_endpoint_basic_availability for one endpoint: one response recorded
TestEndpointBasicAvailability ==
    /\ phase = "tests" /\ running.pc = "idle"
    /\ TotalRecorded < MaxRecorded
    /\ \E key \in SessionEndpoints, status \in Statuses :
        SetStore(RecordResponse(Store, key, status))
    /\ UNCHANGED <<phase, log, running>>
    /\ UNCHANGED <<schemaVars, poolVars, testVars, setupVars>>

\* test_medium_stress_concurrent records one of the results its pool returned
MediumStressRecords ==
    /\ phase = "tests" /\ running.pc = "idle"
    /\ TotalRecorded < MaxRecorded
    /\ \E key \in SessionEndpoints, outcome \in GetOutcomes :
        SetStore(RecordStressResult(Store, key, outcome))
    /\ UNCHANGED <<phase, log, running>>
    /\ UNCHANGED <<schemaVars, poolVars, testVars, setupVars>>

\* test_concurrent_requests of the endpoint 1 discovery records one future
ConcurrentRequestsRecords ==
    /\ phase = "tests" /\ running.pc = "idle"
    /\ TotalRecorded < MaxRecorded
    /\ \E key \in SessionEndpoints, outcome \in GetOutcomes :
        SetStore(RecordFutureResult(Store, key, outcome))
    /\ UNCHANGED <<phase, log, running>>
    /\ UNCHANGED <<schemaVars, poolVars, testVars, setupVars>>

\* test_light_stress_sequential starts for one endpoint
StartLightStress ==
    /\ phase = "tests" /\ running.pc = "idle"
    /\ TotalRecorded + Iterations <= MaxRecorded
    /\ \E key \in SessionEndpoints :
        running' = [NotRunning EXCEPT
                      !.test = "test_light_stress_sequential", !.pc = "loop",
                      !.endpoint = key, !.found = FoundEntry(Store, key)]
    /\ UNCHANGED <<aggregator, entries, lists, accessed, phase, log>>
    /\ UNCHANGED <<schemaVars, poolVars, testVars, setupVars>>

\* one pass of its loop: the request, the recording, the counters
LightStressIteration ==
    /\ running.pc = "loop" /\ running.i < Iterations
    /\ \E outcome \in GetOutcomes :
        /\ running' = Iterated(running, outcome)
        /\ SetStore(IF outcome.raised = "none"
                    THEN RecordResponse(Store, running.endpoint, outcome.status)
                    ELSE RecordFailure(Store, running.endpoint))
    /\ UNCHANGED <<phase, log>>
    /\ UNCHANGED <<schemaVars, poolVars, testVars, setupVars>>

\* after the loop: success_rate >= 0.95 and timeouts == 0 are asserted
LightStressAsserts ==
    /\ running.pc = "loop" /\ running.i = Iterations
    /\ running' = [running EXCEPT
                     !.pc = "ended",
                     !.verdict = IF /\ running.successes * 100 >= 95 * Iterations
                                    /\ running.timeouts = 0
                                 THEN "passed" ELSE "failed"]
    /\ UNCHANGED <<aggregator, entries, lists, accessed, phase, log>>
    /\ UNCHANGED <<schemaVars, poolVars, testVars, setupVars>>

\* the test is over: its locals are gone
EndTest ==
    /\ running.pc = "ended"
    /\ running' = NotRunning
    /\ UNCHANGED <<aggregator, entries, lists, accessed, phase, log>>
    /\ UNCHANGED <<schemaVars, poolVars, testVars, setupVars>>

\* log_session_start after its yield, once the last test has finished:
\* _print_endpoint_discovery_summary()
SessionFinish ==
    /\ phase = "tests" /\ running.pc = "idle"
    /\ phase' = "finished"
    /\ IF aggregator = <<>>
       THEN /\ log' = log
            /\ UNCHANGED <<aggregator, entries, lists, accessed>>
       ELSE LET keys == SortedEndpoints(aggregator)
                st == Subscripted(Store, keys)
            IN  /\ log' = Append(log, Summary(st, keys))
                /\ SetStore(st)
    /\ UNCHANGED running
    /\ UNCHANGED <<schemaVars, poolVars, testVars, setupVars>>

NextSession ==
    \/ SessionStart
    \/ TestEndpointBasicAvailability
    \/ MediumStressRecords
    \/ ConcurrentRequestsRecords
    \/ StartLightStress
    \/ LightStressIteration
    \/ LightStressAsserts
    \/ EndTest
    \/ SessionFinish

SpecSession == InitSession /\ [][NextSession]_vars

----------------------------------------------------------------------------
(* Tests that decide on the outcomes of their requests:                    *)
(* test_endpoint_retry_resilience and test_concurrent_requests.  The pool  *)
(* of test_concurrent_requests is modelled above; here its calls complete  *)
(* one after another, the order of completion having no part in the        *)
(* metrics.  Times are tenths of a second, rates are percentages.          *)

PathTest3 == TestPrefix \o <<51>>
PathTest4 == TestPrefix \o <<52>>
PathTest5 == TestPrefix \o <<53>>
PathTest6 == TestPrefix \o <<54>>

\* the parametrize list of both tests: TEST_ENDPOINT_1 .. TEST_ENDPOINT_6
TestEndpoints == {PathTest1, PathTest2, PathTest3, PathTest4, PathTest5, PathTest6}

max_retries == 3

\* elapsed times a request can take: half a second, seven seconds
ElapsedTimes == {5, 70}

\* PERFORMANCE_THRESHOLDS[endpoint_path]
PERFORMANCE_THRESHOLDS(endpoint_path) ==
    CASE endpoint_path = PathTest1 ->
            [max_avg_response_time |-> 10, min_success_rate |-> 100,
             max_p95_latency |-> 15]
      [] endpoint_path = PathTest2 ->
            [max_avg_response_time |-> 20, min_success_rate |-> 0,
             max_p95_latency |-> 30, expected_failure |-> TRUE]
      [] endpoint_path = PathTest3 ->
            [max_avg_response_time |-> 20, min_success_rate |-> 95,
             max_p95_latency |-> 30, needs_warmup |-> TRUE, warmup_requests |-> 3]
      [] endpoint_path = PathTest4 ->
            [max_avg_response_time |-> 35, min_success_rate |-> 50,
             max_p95_latency |-> 50, expected_failure |-> TRUE]
      [] endpoint_path = PathTest5 ->
            [max_avg_response_time |-> 50, min_success_rate |-> 95,
             max_p95_latency |-> 60]
      [] endpoint_path = PathTest6 ->
            [max_avg_response_time |-> 10, min_success_rate |-> 100,
             max_p95_latency |-> 15]

\* thresholds.get("needs_warmup")
NeedsWarmup(thresholds) ==
    "needs_warmup" \in DOMAIN thresholds /\ thresholds.needs_warmup

\* thresholds.get("warmup_requests", 3)
WarmupCount(thresholds) ==
    IF "warmup_requests" \in DOMAIN thresholds THEN thresholds.warmup_requests ELSE 3

ExpectedFailureNever(thresholds) == FALSE

\* thresholds.get("expected_failure", False)
IsExpectedFailure(thresholds) ==
    "expected_failure" \in DOMAIN thresholds /\ thresholds.expected_failure

AfterAttemptNoBreak(t, outcome) ==
    IF outcome.raised = "none" /\ outcome.status = 200 /\ t.attempt < max_retries
    THEN [t EXCEPT !.success = TRUE, !.attempt = @ + 1]
    ELSE IF outcome.raised = "none" /\ outcome.status = 200
    THEN [t EXCEPT !.success = TRUE, !.pc = "assert"]
    ELSE IF t.attempt < max_retries
    THEN [t EXCEPT !.attempt = @ + 1]
    ELSE IF outcome.raised = "none"
    THEN [t EXCEPT !.pc = "assert"]
    ELSE [t EXCEPT !.pc = "ended", !.raised = "RequestException"]

AfterAttemptSwallowsLast(t, outcome) ==
    IF outcome.raised = "none" /\ outcome.status = 200
    THEN [t EXCEPT !.success = TRUE, !.pc = "assert"]
    ELSE IF t.attempt < max_retries
    THEN [t EXCEPT !.attempt = @ + 1]
    ELSE [t EXCEPT !.pc = "assert"]

\* one pass of the retry loop (lines 37-58) on the test's locals: break on
\* 200; next attempt after a non-200 response or a swallowed exception; on
\* attempt max_retries the loop ends, or the exception is raised again
AfterAttempt(t, outcome) ==
    IF outcome.raised = "none" /\ outcome.status = 200
    THEN [t EXCEPT !.success = TRUE, !.pc = "assert"]
    ELSE IF t.attempt < max_retries
    THEN [t EXCEPT !.attempt = @ + 1]
    ELSE IF outcome.raised = "none"
    THEN [t EXCEPT !.pc = "assert"]
    ELSE [t EXCEPT !.pc = "ended", !.raised = "RequestException"]

\* how a test that raised `raised` ends
VerdictOf(raised) ==
    CASE raised = "none" -> "passed"
      [] raised = "XFailed" -> "xfailed"
      [] OTHER -> "failed"

\* the dict do_request returns, with its elapsed time
TimedResult(i, outcome, time) ==
    [i |-> i, status |-> outcome.status, time |-> time,
     ok |-> (outcome.raised = "none" /\ outcome.status = 200)]

RECURSIVE SumOfTimes(_)
SumOfTimes(rs) == IF rs = <<>> THEN 0 ELSE Head(rs).time + SumOfTimes(Tail(rs))

EvaluatedXfailFirst(rs, thresholds) ==
    IF IsExpectedFailure(thresholds) THEN "XFailed"
    ELSE IF \A n \in DOMAIN rs : ~rs[n].ok THEN "Failed"
    ELSE "none"

\* lines 165-224 after the metrics are attached: what the test raises.
\* success_rate = success_count / total_requests; avg is the mean of the
\* successful times; p95 is their maximum (fewer than 20 samples)
Evaluated(rs, thresholds) ==
    LET successful == SelectSeq(rs, LAMBDA r : r.ok)
        success_count == Len(successful)
        response_times == {successful[n].time : n \in DOMAIN successful}
        p95_latency == MaxOf(response_times)
    IN  IF success_count = 0 THEN "Failed"
        ELSE IF IsExpectedFailure(thresholds) THEN "XFailed"
        ELSE IF success_count * 100 < thresholds.min_success_rate * TotalRequests
        THEN "AssertionError"
        ELSE IF SumOfTimes(successful) > thresholds.max_avg_response_time * success_count
        THEN "AssertionError"
        ELSE IF p95_latency > thresholds.max_p95_latency
        THEN "AssertionError"
        ELSE "none"

\* no test has run yet
InitTests ==
    /\ server = DocNoPaths
    /\ file = NoFile
    /\ call = NoCall
    /\ endpoint_results = 0
    /\ dicts = <<>>
    /\ session = [test |-> "none", pc |-> "session", n |-> 0]
    /\ base = EmptyEntry
    /\ queue = <<>>
    /\ futures = <<>>
    /\ workers = EmptyBag
    /\ results = <<>>
    /\ yielded = {}
    /\ aggregator = <<>>
    /\ entries = <<>>
    /\ lists = <<>>
    /\ accessed = {}
    /\ phase = "created"
    /\ log = <<>>
    /\ running = NotRunning
    /\ trial = NoTest
    /\ sent = <<>>
    /\ verdict = "none"
    /\ fixture = NoFixture
    /\ test_logger = None
    /\ registry = NoLoggers
    /\ logger_calls = <<>>

\* test_endpoint_retry_resilience starts for one endpoint
StartRetry ==
    /\ trial.pc = "idle"
    /\ \E endpoint \in TestEndpoints :
        trial' = [NoTest EXCEPT !.name = "test_endpoint_retry_resilience",
                                !.pc = "loop", !.endpoint = endpoint,
                                !.attempt = 1]
    /\ sent' = <<>>
    /\ verdict' = "none"
    /\ UNCHANGED <<schemaVars, poolVars, sessionVars, setupVars>>

\* one attempt: the request and what the loop does with its outcome
RetryAttempt ==
    /\ trial.name = "test_endpoint_retry_resilience" /\ trial.pc = "loop"
    /\ \E outcome \in GetOutcomes :
        LET t == AfterAttempt(trial, outcome)
        IN  /\ trial' = t
            /\ sent' = Append(sent, outcome)
            /\ verdict' = IF t.pc = "ended" THEN VerdictOf(t.raised) ELSE verdict
    /\ UNCHANGED <<schemaVars, poolVars, sessionVars, setupVars>>

\* assert success, "Endpoint failed to respond after retries"
RetryAssert ==
    /\ trial.name = "test_endpoint_retry_resilience" /\ trial.pc = "assert"
    /\ LET raised == IF trial.success THEN "none" ELSE "AssertionError"
       IN  /\ trial' = [trial EXCEPT !.pc = "ended", !.raised = raised]
           /\ verdict' = VerdictOf(raised)
    /\ UNCHANGED sent
    /\ UNCHANGED <<schemaVars, poolVars, sessionVars, setupVars>>

\* test_concurrent_requests starts for one endpoint
StartConcurrent ==
    /\ trial.pc = "idle"
    /\ \E endpoint_path \in TestEndpoints :
        trial' = [NoTest EXCEPT
                    !.name = "test_concurrent_requests",
                    !.endpoint = endpoint_path,
                    !.pc = IF NeedsWarmup(PERFORMANCE_THRESHOLDS(endpoint_path))
                           THEN "warmup" ELSE "pool"]
    /\ sent' = <<>>
    /\ verdict' = "none"
    /\ UNCHANGED <<schemaVars, poolVars, sessionVars, setupVars>>

\* one warmup request; whatever it raises is logged and dropped
Warmup ==
    /\ trial.name = "test_concurrent_requests" /\ trial.pc = "warmup"
    /\ \E outcome \in GetOutcomes :
        /\ sent' = Append(sent, outcome)
        /\ trial' = [trial EXCEPT
                       !.attempt = @ + 1,
                       !.pc = IF trial.attempt + 1
                                 < WarmupCount(PERFORMANCE_THRESHOLDS(trial.endpoint))
                              THEN "warmup" ELSE "pool"]
    /\ UNCHANGED verdict
    /\ UNCHANGED <<schemaVars, poolVars, sessionVars, setupVars>>

\* a do_request call completes and as_completed hands its result to the loop
PoolCall ==
    /\ trial.name = "test_concurrent_requests" /\ trial.pc = "pool"
    /\ Len(trial.results) < TotalRequests
    /\ \E outcome \in GetOutcomes, time \in ElapsedTimes :
        /\ sent' = Append(sent, outcome)
        /\ trial' = [trial EXCEPT
                       !.results = Append(@, TimedResult(Len(@), outcome, time))]
    /\ UNCHANGED verdict
    /\ UNCHANGED <<schemaVars, poolVars, sessionVars, setupVars>>

\* lines 165-224: the metrics are computed and attached, then the checks
ConcurrentEvaluate ==
    /\ trial.name = "test_concurrent_requests" /\ trial.pc = "pool"
    /\ Len(trial.results) = TotalRequests
    /\ LET raised == Evaluated(trial.results, PERFORMANCE_THRESHOLDS(trial.endpoint))
       IN  /\ trial' = [trial EXCEPT !.pc = "ended", !.attached = TRUE,
                                     !.raised = raised]
           /\ verdict' = VerdictOf(raised)
    /\ UNCHANGED sent
    /\ UNCHANGED <<schemaVars, poolVars, sessionVars, setupVars>>

\* the test is over
EndTrial ==
    /\ trial.pc = "ended"
    /\ trial' = NoTest
    /\ UNCHANGED <<sent, verdict>>
    /\ UNCHANGED <<schemaVars, poolVars, sessionVars, setupVars>>

NextTests ==
    \/ StartRetry
    \/ RetryAttempt
    \/ RetryAssert
    \/ StartConcurrent
    \/ Warmup
    \/ PoolCall
    \/ ConcurrentEvaluate
    \/ EndTrial

SpecTests == InitTests /\ [][NextTests]_vars

(***************************************************************************)
(* tests/discovery: the loops of test_endpoints_discovery,                 *)
(* test_endpoint_3_recovery_pattern and test_endpoint_cooldown_period.     *)
(* A delay is a fraction of a second [num, den]; a local that is None in   *)
(* the code is 0 here (request numbers and waits are positive).            *)
(***************************************************************************)

MaxRequests == 3

HTTP_TOO_MANY_REQUESTS == 429

\* the responses and exceptions a discovery request ends in
DiscoveryOutcomes ==
    GetOutcomes \cup {[status |-> HTTP_TOO_MANY_REQUESTS, raised |-> "none"]}

NoDelay == [num |-> 0, den |-> 1]

\* the delay arguments of the parametrisation: 0, 0.5 and 1.0 seconds
Delays == {NoDelay, [num |-> 1, den |-> 2], [num |-> 1, den |-> 1]}

SameDelay(a, b) == a.num * b.den = b.num * a.den

\* current_delay *= 1.5
Grown(d) == [num |-> 3 * d.num, den |-> 2 * d.den]

\* if i > 0 and current_delay > 0: time.sleep(current_delay)
Sleeps(t) == t.i > 0 /\ t.current_delay.num > 0

DiscoveredFlagsEvery(t, status) ==
    LET current_delay == IF Sleeps(t) /\ t.increase_delay
                         THEN Grown(t.current_delay) ELSE t.current_delay
        recovered == status = 200 /\ t.error_count > 0
    IN  [t EXCEPT
           !.i = @ + 1,
           !.current_delay = current_delay,
           !.first_success_at = IF recovered THEN t.i + 1 ELSE @,
           !.error_count = IF status # 200 THEN @ + 1 ELSE @,
           !.results = Append(@, [request_num |-> t.i + 1, status_code |-> status,
                                  delay_before |-> IF t.i > 0 THEN current_delay
                                                   ELSE NoDelay,
                                  recovered |-> recovered]),
           !.slept = Append(@, IF Sleeps(t) THEN t.current_delay ELSE NoDelay)]

\* one pass of the loop of test_endpoints_discovery whose request returned
\* `status`: the sleep, the growth of the delay, the result dict, the
\* recovery flag, the error count. slept keeps the argument of the pass's
\* time.sleep call (no delay when it made none); a result without the
\* key "recovered" has recovered FALSE
Discovered(t, status) ==
    LET current_delay == IF Sleeps(t) /\ t.increase_delay
                         THEN Grown(t.current_delay) ELSE t.current_delay
        recovered == status = 200 /\ t.first_success_at = 0 /\ t.error_count > 0
    IN  [t EXCEPT
           !.i = @ + 1,
           !.current_delay = current_delay,
           !.first_success_at = IF recovered THEN t.i + 1 ELSE @,
           !.error_count = IF status # 200 THEN @ + 1 ELSE @,
           !.results = Append(@, [request_num |-> t.i + 1, status_code |-> status,
                                  delay_before |-> IF t.i > 0 THEN current_delay
                                                   ELSE NoDelay,
                                  recovered |-> recovered]),
           !.slept = Append(@, IF Sleeps(t) THEN t.current_delay ELSE NoDelay)]

\* test_endpoints_discovery starts with one row of its parametrisation
StartDiscovery ==
    /\ trial.pc = "idle"
    /\ \E num_requests \in 1..MaxRequests, delay \in Delays,
          increase_delay \in BOOLEAN :
        trial' = [name |-> "test_endpoints_discovery", pc |-> "loop",
                  num_requests |-> num_requests, delay |-> delay,
                  increase_delay |-> increase_delay, i |-> 0,
                  first_success_at |-> 0, error_count |-> 0,
                  current_delay |-> delay, results |-> <<>>, slept |-> <<>>,
                  raised |-> "none"]
    /\ sent' = <<>>
    /\ verdict' = "none"
    /\ UNCHANGED <<schemaVars, poolVars, sessionVars, setupVars>>

\* one pass of its loop; an exception of requests.get ends the test
DiscoveryRequest ==
    /\ trial.name = "test_endpoints_discovery" /\ trial.pc = "loop"
    /\ trial.i < trial.num_requests
    /\ \E outcome \in DiscoveryOutcomes :
        /\ sent' = Append(sent, outcome)
        /\ IF outcome.raised = "none"
           THEN /\ trial' = Discovered(trial, outcome.status)
                /\ verdict' = verdict
           ELSE /\ trial' = [trial EXCEPT
                               !.pc = "ended", !.raised = outcome.raised,
                               !.slept = Append(@, IF Sleeps(trial)
                                                   THEN trial.current_delay
                                                   ELSE NoDelay)]
                /\ verdict' = VerdictOf(outcome.raised)
    /\ UNCHANGED <<schemaVars, poolVars, sessionVars, setupVars>>

\* after the loop: the report is written and the assertions are made
DiscoveryAsserts ==
    /\ trial.name = "test_endpoints_discovery" /\ trial.pc = "loop"
    /\ trial.i = trial.num_requests
    /\ LET last == trial.results[Len(trial.results)].status_code
           raised == IF trial.num_requests = 1 /\ last \notin {200, 500, 503}
                     THEN "AssertionError"
                     ELSE IF Len(trial.results) # trial.num_requests
                          THEN "AssertionError" ELSE "none"
       IN  /\ trial' = [trial EXCEPT !.pc = "ended", !.raised = raised]
           /\ verdict' = VerdictOf(raised)
    /\ UNCHANGED sent
    /\ UNCHANGED <<schemaVars, poolVars, sessionVars, setupVars>>

\* the length of the loop of test_endpoint_3_recovery_pattern (50 in the code)
RecoveryRequests == 4

\* initial_delay = 0.1 and delay_increment = 0.05, in twentieths of a second
InitialDelay == [num |-> 2, den |-> 20]

\* current_delay += delay_increment
Increased(d) == [d EXCEPT !.num = @ + 1]

\* one pass of that loop for request t.i + 1 answered with `status`: the
\* result dict, first_failure, consecutive_successes and recovery_point
Tracked(t, status) ==
    LET i == t.i + 1
        first_failure == IF status # HTTP_OK /\ t.first_failure = 0
                         THEN i ELSE t.first_failure
        recovering == first_failure # 0 /\ status = HTTP_OK
        consecutive_successes ==
            IF recovering THEN t.consecutive_successes + 1
            ELSE IF status # HTTP_OK THEN 0 ELSE t.consecutive_successes
    IN  [t EXCEPT
           !.i = i,
           !.results = Append(@, [request_num |-> i, status_code |-> status,
                                  delay_before |-> IF i > 1 THEN t.current_delay
                                                   ELSE NoDelay]),
           !.first_failure = first_failure,
           !.consecutive_successes = consecutive_successes,
           !.recovery_point = IF recovering /\ consecutive_successes = 1
                              THEN i ELSE @,
           !.current_delay = Increased(@)]

\* test_endpoint_3_recovery_pattern up to its loop: the warmup request to
\* endpoint 1 must return 200
StartRecovery ==
    /\ trial.pc = "idle"
    /\ \E warmup \in DiscoveryOutcomes :
        LET raised == IF warmup.raised # "none" THEN warmup.raised
                      ELSE IF warmup.status # HTTP_OK THEN "AssertionError"
                      ELSE "none"
        IN  /\ trial' = [name |-> "test_endpoint_3_recovery_pattern",
                         pc |-> IF raised = "none" THEN "loop" ELSE "ended",
                         i |-> 0, results |-> <<>>, current_delay |-> InitialDelay,
                         first_failure |-> 0, recovery_point |-> 0,
                         consecutive_successes |-> 0, raised |-> raised]
            /\ verdict' = IF raised = "none" THEN "none" ELSE VerdictOf(raised)
    /\ sent' = <<>>
    /\ UNCHANGED <<schemaVars, poolVars, sessionVars, setupVars>>

\* one pass of its loop; an exception of requests.get ends the test
RecoveryRequest ==
    /\ trial.name = "test_endpoint_3_recovery_pattern" /\ trial.pc = "loop"
    /\ trial.i < RecoveryRequests
    /\ \E outcome \in DiscoveryOutcomes :
        /\ sent' = Append(sent, outcome)
        /\ IF outcome.raised = "none"
           THEN /\ trial' = Tracked(trial, outcome.status)
                /\ verdict' = verdict
           ELSE /\ trial' = [trial EXCEPT !.pc = "ended", !.raised = outcome.raised]
                /\ verdict' = VerdictOf(outcome.raised)
    /\ UNCHANGED <<schemaVars, poolVars, sessionVars, setupVars>>

\* after the loop: the analysis is logged and attached; nothing is asserted
RecoveryAnalysis ==
    /\ trial.name = "test_endpoint_3_recovery_pattern" /\ trial.pc = "loop"
    /\ trial.i = RecoveryRequests
    /\ trial' = [trial EXCEPT !.pc = "ended"]
    /\ verdict' = VerdictOf("none")
    /\ UNCHANGED sent
    /\ UNCHANGED <<schemaVars, poolVars, sessionVars, setupVars>>

\* the length of the first loop of test_endpoint_cooldown_period (20 in the code)
TriggerRequests == 3

\* cooldown_periods, in seconds
cooldown_periods == <<30, 40, 50, 60, 120, 300>>

\* for j in range(4)
VerifyRequests == 4

\* test_endpoint_cooldown_period starts (the test keeps no list of its
\* responses, and sent stays empty during it)
StartCooldown ==
    /\ trial.pc = "idle"
    /\ trial' = [name |-> "test_endpoint_cooldown_period", pc |-> "trigger",
                 i |-> 0, k |-> 1, j |-> 0, cooldown_found |-> FALSE,
                 actual_cooldown |-> 0, consecutive_success |-> 0,
                 waited |-> 0, raised |-> "none"]
    /\ sent' = <<>>
    /\ verdict' = "none"
    /\ UNCHANGED <<schemaVars, poolVars, sessionVars, setupVars>>

\* step 1, one pass: a 429 leaves the loop; when the loop ends without one the
\* assertion after it fails
TriggerRequest ==
    /\ trial.name = "test_endpoint_cooldown_period" /\ trial.pc = "trigger"
    /\ \E outcome \in DiscoveryOutcomes :
        LET raised == IF outcome.raised # "none" THEN outcome.raised
                      ELSE IF /\ outcome.status # HTTP_TOO_MANY_REQUESTS
                              /\ trial.i + 1 = TriggerRequests
                      THEN "AssertionError" ELSE "none"
        IN  /\ trial' = [trial EXCEPT
                           !.i = @ + 1,
                           !.raised = raised,
                           !.pc = IF raised # "none" THEN "ended"
                                  ELSE IF outcome.status = HTTP_TOO_MANY_REQUESTS
                                  THEN "cooldown" ELSE "trigger"]
            /\ verdict' = IF raised # "none" THEN VerdictOf(raised) ELSE verdict
    /\ UNCHANGED sent
    /\ UNCHANGED <<schemaVars, poolVars, sessionVars, setupVars>>

\* step 2, one pass: time.sleep(wait_time), then the retry. waited is the
\* sum of the sleeps made since the 429
CooldownRetry ==
    /\ trial.name = "test_endpoint_cooldown_period" /\ trial.pc = "cooldown"
    /\ \E outcome \in DiscoveryOutcomes :
        LET wait_time == cooldown_periods[trial.k]
            ok == outcome.raised = "none" /\ outcome.status = HTTP_OK
            raised == IF outcome.raised # "none" THEN outcome.raised
                      ELSE IF ~ok /\ trial.k = Len(cooldown_periods)
                      THEN "AssertionError" ELSE "none"
        IN  /\ trial' = [trial EXCEPT
                           !.waited = @ + wait_time,
                           !.k = IF ok THEN @ ELSE @ + 1,
                           !.actual_cooldown = IF ok THEN wait_time ELSE @,
                           !.cooldown_found = ok,
                           !.consecutive_success = IF ok THEN 1 ELSE @,
                           !.raised = raised,
                           !.pc = IF raised # "none" THEN "ended"
                                  ELSE IF ok THEN "verify" ELSE "cooldown"]
            /\ verdict' = IF raised # "none" THEN VerdictOf(raised) ELSE verdict
    /\ UNCHANGED sent
    /\ UNCHANGED <<schemaVars, poolVars, sessionVars, setupVars>>

\* one of the four requests made after the cooldown was found; after the
\* fourth the loop is left, cooldown_found holds and the result is reported
VerifyRequest ==
    /\ trial.name = "test_endpoint_cooldown_period" /\ trial.pc = "verify"
    /\ \E outcome \in DiscoveryOutcomes :
        LET done == outcome.raised = "none" /\ trial.j + 1 = VerifyRequests
        IN  /\ trial' = [trial EXCEPT
                           !.j = @ + 1,
                           !.consecutive_success =
                               IF outcome.raised = "none" /\ outcome.status = HTTP_OK
                               THEN @ + 1 ELSE @,
                           !.raised = outcome.raised,
                           !.pc = IF outcome.raised # "none" \/ done
                                  THEN "ended" ELSE "verify"]
            /\ verdict' = IF outcome.raised # "none" THEN VerdictOf(outcome.raised)
                          ELSE IF done THEN VerdictOf("none") ELSE verdict
    /\ UNCHANGED sent
    /\ UNCHANGED <<schemaVars, poolVars, sessionVars, setupVars>>

NextDiscovery ==
    \/ StartDiscovery
    \/ DiscoveryRequest
    \/ DiscoveryAsserts
    \/ StartRecovery
    \/ RecoveryRequest
    \/ RecoveryAnalysis
    \/ StartCooldown
    \/ TriggerRequest
    \/ CooldownRetry
    \/ VerifyRequest
    \/ EndTrial

SpecDiscovery == InitTests /\ [][NextDiscovery]_vars

(***************************************************************************)
(* config/logger_config.py: get_test_logger and the TestLogger it builds.  *)
(* A logger object is known by its name, as logging.getLogger keeps one    *)
(* object per name; registry holds the handlers of each.                   *)
(***************************************************************************)

MaxCalls == 3

LOGGING_DEBUG == 10
LOGGING_INFO == 20
LOGGING_ERROR == 40

LoggerNames == {"qa_tests", "api_tests"}
Levels == {LOGGING_DEBUG, LOGGING_INFO}

\* what self.log_dir.mkdir does: nothing to report, or an OSError
MkdirOutcomes == {"ok", "OSError"}

\* _setup_console_handler and _setup_file_handlers: the four handlers added
Handlers(console_level, file_level) ==
    << [kind |-> "console", level |-> console_level],
       [kind |-> "session", level |-> file_level],
       [kind |-> "main", level |-> file_level],
       [kind |-> "errors", level |-> LOGGING_ERROR] >>

\* TestLogger(name, console_level, file_level): the logger of that name gets
\* its handlers cleared and set up anew
Constructed(reg, name, console_level, file_level) ==
    IF HasKey(reg, name)
    THEN [n \in DOMAIN reg |->
            IF reg[n].k = name
            THEN [k |-> name, v |-> Handlers(console_level, file_level)]
            ELSE reg[n]]
    ELSE Append(reg, [k |-> name, v |-> Handlers(console_level, file_level)])

IsMissingOrRenamed(tl, name) == tl # name

\* if _test_logger is None
IsMissing(tl, name) == tl = None

\* get_test_logger(name, console_level, file_level), with `mkdir` the fate of
\* the directory creation if a TestLogger is built
GetTestLogger(tl, reg, name, console_level, file_level, mkdir) ==
    IF IsMissing(tl, name)
    THEN IF mkdir = "ok"
         THEN [test_logger |-> name,
               registry |-> Constructed(reg, name, console_level, file_level),
               constructed |-> TRUE, raised |-> "none", returned |-> name]
         ELSE [test_logger |-> tl, registry |-> reg,
               constructed |-> FALSE, raised |-> mkdir, returned |-> None]
    ELSE [test_logger |-> tl, registry |-> reg,
          constructed |-> FALSE, raised |-> "none", returned |-> tl]

\* some module calls get_test_logger; the call is kept with its arguments,
\* what it returned and the handlers the returned logger then has
CallGetTestLogger ==
    /\ Len(logger_calls) < MaxCalls
    /\ \E name \in LoggerNames, console_level \in Levels, file_level \in Levels,
          mkdir \in MkdirOutcomes :
        LET r == GetTestLogger(test_logger, registry, name, console_level,
                               file_level, mkdir)
        IN  /\ test_logger' = r.test_logger
            /\ registry' = r.registry
            /\ logger_calls' =
                 Append(logger_calls,
                        [name |-> name, console_level |-> console_level,
                         file_level |-> file_level, raised |-> r.raised,
                         constructed |-> r.constructed, returned |-> r.returned,
                         handlers |-> IF r.raised = "none"
                                      THEN Get(r.registry, r.returned) ELSE <<>>])
    /\ UNCHANGED fixture
    /\ UNCHANGED <<schemaVars, poolVars, sessionVars, testVars>>

NextLogger ==
    \/ CallGetTestLogger

SpecLogger == InitTests /\ [][NextLogger]_vars

----------------------------------------------------------------------------
(* Properties of the aggregator under the thread pool, checked under       *)
(* SpecPool.                                                               *)

AfterPool == session.pc \in {"record", "done"}
ConcurrentDone ==
    session.test = "test_concurrent_requests" /\ session.pc = "done"

\* the calls whose requests.get returned a response
Responded == {k \in DOMAIN futures : ~futures[k].exception}

Occurrences(seq, x) == Cardinality({i \in DOMAIN seq : seq[i] = x})

\* C4: test_count, passed and failed of the endpoint's entry never decrease
\* in any step of a session, the steps of the worker threads included.
C4_CountsNeverDecrease ==
    [][/\ CurrentEntry'.test_count >= CurrentEntry.test_count
       /\ CurrentEntry'.passed >= CurrentEntry.passed
       /\ CurrentEntry'.failed >= CurrentEntry.failed]_vars

\* C5: after the pool of test_concurrent_requests has finished, test_count
\* has grown by exactly the number of calls, and so has passed + failed.
C5_NoIncrementLost ==
    ConcurrentDone
        => /\ CurrentEntry.test_count = base.test_count + TotalRequests
           /\ CurrentEntry.passed + CurrentEntry.failed
                = base.passed + base.failed + TotalRequests

\* C6: after the pool of test_concurrent_requests has finished, status_codes
\* and response_times have each grown by exactly the number of calls that got
\* a response, every status appended being there once.
C6_EveryAppendRetained ==
    ConcurrentDone
        => /\ Len(CurrentEntry.status_codes)
                = Len(base.status_codes) + Cardinality(Responded)
           /\ Len(CurrentEntry.response_times)
                = Len(base.response_times) + Cardinality(Responded)
           /\ \A c \in Statuses :
                Occurrences(CurrentEntry.status_codes, c)
                  = Occurrences(base.status_codes, c)
                    + Cardinality({k \in Responded : futures[k].result.status = c})

\* C7: when the thread-pool block has exited, every submitted call has run
\* to completion and has contributed exactly one element to results, in
\* whatever order they completed; a call whose request raised contributes
\* the failure result (ok False, status 0).
C7_AllResultsCollected ==
    AfterPool
        => /\ Len(futures) = TotalRequests
           /\ \A k \in DOMAIN futures : futures[k].state = "done"
           /\ Len(results) = TotalRequests
           /\ \A i \in 0..(TotalRequests - 1) :
                Cardinality({n \in DOMAIN results : results[n].i = i}) = 1
           /\ \A n \in DOMAIN results :
                /\ results[n] = futures[results[n].i + 1].result
                /\ futures[results[n].i + 1].exception
                     => results[n].status = 0 /\ ~results[n].ok

\* the last submitted call completed first, and a request raised
C7_Witness ==
    /\ AfterPool
    /\ results[1].i = TotalRequests - 1
    /\ \E k \in DOMAIN futures : futures[k].exception
    /\ \E k \in DOMAIN futures : futures[k].result.ok

----------------------------------------------------------------------------
(* Properties of the SchemaManager, checked under SpecSchema.              *)

SchemaOps == {"download_schema", "get_schema", "get_endpoint_schema",
              "get_all_test_endpoints"}
RequestErrors == {"ConnectionError", "Timeout", "HTTPError"}

\* C1: once the cache file exists, download_schema(force=False), get_schema,
\* get_endpoint_schema and get_all_test_endpoints issue no HTTP request and
\* leave the file as it was, whatever the server serves by then; and
\* download_schema(force=False) returns the cache file's path.
C1_CachedCallsReadOnly ==
    (call.op \in SchemaOps /\ call.before.exists /\ ~call.force)
        => /\ call.gets = 0
           /\ file = call.before
           /\ call.op = "download_schema"
                => call.raised = "none" /\ call.retKind = "path"
                   /\ call.retPath = SchemaFile

\* a non-forced download answered from a cache that differs from what the
\* server served at that moment
C1_Witness ==
    /\ call.op = "download_schema" /\ ~call.force
    /\ call.before.exists /\ call.before.whole
    /\ call.served.valid /\ call.served.dumpable
    /\ call.before.text # JsonDump(YamlLoad(call.served))
    /\ call.retKind = "path"

\* C2: a download_schema call made with the cache absent or with force=True
\* that returns normally has issued the GET, and on return the file holds the
\* JSON form of the document served at that request, replacing what it held,
\* and the path returned is the cache file's.
C2_DownloadStoresServed ==
    (call.op = "download_schema" /\ (~call.before.exists \/ call.force)
     /\ call.raised = "none")
        => /\ call.gets = 1
           /\ call.net = "ok"
           /\ file.exists /\ file.whole
           /\ file.text = JsonDump(YamlLoad(call.served))
           /\ call.retKind = "path" /\ call.retPath = SchemaFile

\* a forced download that replaced a cache of another document
C2_Witness ==
    /\ call.op = "download_schema" /\ call.force /\ call.raised = "none"
    /\ call.before.exists /\ call.before.whole
    /\ call.before.text # file.text

\* C3: when the GET of download_schema raises a requests exception or the
\* status is an error, download_schema raises that error and the cache file
\* is as it was before the call.
C3_FailedGetKeepsCache ==
    (call.op = "download_schema" /\ call.net \in RequestErrors)
        => /\ call.raised = call.net
           /\ call.retKind = "none"
           /\ file = call.before

\* force=True over an existing cache, and the GET fails
C3_Witness ==
    /\ call.op = "download_schema" /\ call.force
    /\ call.net \in RequestErrors
    /\ call.before.exists /\ call.before.whole

\* the download made by the call could not succeed
DownloadFailed ==
    call.net \in RequestErrors \/ ~call.served.valid \/ ~call.served.dumpable

\* C8: get_schema invokes download_schema exactly when the cache file is
\* absent at the call; whenever it returns, the mapping returned is the
\* content of the cache file; if the download fails it raises and returns
\* nothing.
C8_GetSchema ==
    call.op = "get_schema"
        => /\ call.downloads = (IF call.before.exists THEN 0 ELSE 1)
           /\ call.retKind = "schema"
                => /\ file.exists /\ file.whole
                   /\ call.retSchema = JsonLoad(file.text)
           /\ (call.downloads = 1 /\ DownloadFailed)
                => call.raised # "none" /\ call.retKind = "none"

\* get_schema found no file, downloaded, and returned the mapping
C8_Witness ==
    /\ call.op = "get_schema" /\ ~call.before.exists
    /\ call.downloads = 1 /\ call.retKind = "schema"
    /\ call.retSchema.paths # <<>>

\* the schema a lookup works on, when the cache holds one after the call
CachedPaths == PathsOf(JsonLoad(file.text))
Found ==
    /\ HasKey(CachedPaths, call.path)
    /\ HasKey(Get(CachedPaths, call.path), Lower(call.method))

\* C9 as stated: get_endpoint_schema returns paths[path][lower(method)] when
\* both exist and raises ValueError when the path or the lower-cased method
\* is missing; on a miss it returns nothing and never changes the cache.
C9_MissNeverChangesCache ==
    (call.op = "get_endpoint_schema" /\ file.exists /\ file.whole)
        => IF Found
           THEN /\ call.raised = "none" /\ call.retKind = "operation"
                /\ call.retOp = Get(Get(CachedPaths, call.path), Lower(call.method))
           ELSE /\ call.raised = "ValueError" /\ call.retKind = "none"
                /\ file = call.before

\* C9 amended: as above, but on a miss only an existing cache file is left
\* as it was; with the cache absent the call has downloaded and written it
\* before the lookup missed.
C9_MissKeepsExistingCache ==
    (call.op = "get_endpoint_schema" /\ file.exists /\ file.whole)
        => IF Found
           THEN /\ call.raised = "none" /\ call.retKind = "operation"
                /\ call.retOp = Get(Get(CachedPaths, call.path), Lower(call.method))
           ELSE /\ call.raised = "ValueError" /\ call.retKind = "none"
                /\ call.before.exists => file = call.before
                /\ ~call.before.exists
                     => call.gets = 1 /\ file.text = JsonDump(YamlLoad(call.served))

\* a miss on the method after the call itself had to download the schema
C9_Witness ==
    /\ call.op = "get_endpoint_schema" /\ call.raised = "ValueError"
    /\ ~call.before.exists /\ file.whole
    /\ HasKey(CachedPaths, call.path)

\* C10: get_all_test_endpoints returns exactly the schema paths that start
\* with "/api/test/", each once, in ascending order (the empty list when the
\* schema has no paths or none has the prefix).
C10_TestEndpointsSorted ==
    (call.op = "get_all_test_endpoints" /\ file.exists /\ file.whole)
        => LET keys == Keys(CachedPaths)
               want == {keys[i] : i \in {j \in DOMAIN keys : StartsWith(keys[j], TestPrefix)}}
               got == call.retList
           IN  /\ call.retKind = "list"
               /\ {got[i] : i \in DOMAIN got} = want
               /\ Len(got) = Cardinality(want)
               /\ \A i, j \in DOMAIN got : i < j => StrLess(got[i], got[j])

\* three test endpoints that the document lists out of order
C10_Witness ==
    /\ call.op = "get_all_test_endpoints"
    /\ call.retList = <<PathTest1, PathTest10, PathTest2>>
    /\ Keys(CachedPaths) # call.retList

\* the empty answers: no "paths" key, and paths without the prefix
C10_WitnessEmpty ==
    /\ call.op = "get_all_test_endpoints" /\ call.retKind = "list"
    /\ call.retList = <<>> /\ CachedPaths # <<>>

\* C14: a download_schema call that does not hit the cache (file absent or
\* force=True) issues exactly one GET, whether the call returns or raises.
C14_OneGetPerDownload ==
    (call.op = "download_schema" /\ (~call.before.exists \/ call.force))
        => call.gets = 1 /\ ~call.hit

\* a forced download whose GET failed: one request, the error raised
C14_Witness ==
    /\ call.op = "download_schema" /\ call.force
    /\ call.net \in RequestErrors /\ call.raised = call.net
    /\ call.gets = 1

\* the complete JSON of a document the server can serve and the code can save
CompleteCaches ==
    {JsonDump(YamlLoad(d)) : d \in {x \in ServedDocs : x.valid /\ x.dumpable}}

\* C20: after a download_schema call, failed or not, the cache file is absent
\* or holds the complete JSON of one successfully fetched document.
C20_CacheAbsentOrComplete ==
    (call.op = "download_schema" /\ file.exists)
        => file.whole /\ file.text \in CompleteCaches

----------------------------------------------------------------------------
(* Properties of the aggregator and of the session summary, checked under  *)
(* SpecSession.                                                            *)

RecordedKeys == {aggregator[n].k : n \in DOMAIN aggregator}

\* C11: in the summary every recorded endpoint has exactly one line, whose
\* label is OK iff its status_codes hold 200 and nothing else, UNSTABLE iff
\* they hold 200 and another code, FAILED iff they hold no 200 (an empty list
\* included).
C11_ThreeWayLabel ==
    (phase = "finished" /\ log # <<>>)
        => LET lines == log[1].lines
           IN  /\ \A key \in RecordedKeys :
                    Cardinality({m \in DOMAIN lines : lines[m].endpoint = key}) = 1
               /\ \A m \in DOMAIN lines :
                    LET codes == ValueOf(Store, lines[m].endpoint).status_codes
                        has200 == \E n \in DOMAIN codes : codes[n] = 200
                        other == \E n \in DOMAIN codes : codes[n] # 200
                    IN  /\ lines[m].status_text \in {"OK", "UNSTABLE", "FAILED"}
                        /\ lines[m].status_text = "OK" <=> (has200 /\ ~other)
                        /\ lines[m].status_text = "UNSTABLE" <=> (has200 /\ other)
                        /\ lines[m].status_text = "FAILED" <=> ~has200

\* a summary with an UNSTABLE endpoint and an endpoint FAILED on an empty list
C11_Witness ==
    /\ phase = "finished" /\ log # <<>>
    /\ \E m \in DOMAIN log[1].lines : log[1].lines[m].status_text = "UNSTABLE"
    /\ \E m \in DOMAIN log[1].lines :
        /\ log[1].lines[m].status_text = "FAILED"
        /\ ValueOf(Store, log[1].lines[m].endpoint).status_codes = <<>>

\* C12: the summary is written at most once, only by the teardown that
\* follows the last test, exactly when the aggregator has an entry, and
\* writing it leaves the aggregator, its entries and their lists as they were.
C12_SummaryOnceAtTeardown ==
    /\ [](/\ Len(log) <= 1
          /\ phase # "finished" => log = <<>>
          /\ phase = "finished" => (log # <<>> <=> aggregator # <<>>)
          /\ phase = "finished" => running.pc = "idle")
    /\ [][/\ (log' # log)
                => (/\ phase = "tests" /\ phase' = "finished"
                    /\ UNCHANGED <<aggregator, entries, lists>>)
          /\ (phase = "finished")
                => UNCHANGED <<aggregator, entries, lists, log>>]_vars

\* the session has ended with a summary of one endpoint out of the two
C12_Witness ==
    /\ phase = "finished" /\ Len(log) = 1
    /\ Len(aggregator) = 1 /\ Len(log[1].lines) = 1

\* the list objects the entries hold
ListRefs ==
    {entries[aggregator[n].ref].status_codes : n \in DOMAIN aggregator}
        \cup {entries[aggregator[n].ref].response_times : n \in DOMAIN aggregator}

\* C13: the keys with an entry are the keys that were subscripted; a key
\* without entry gets, at its first subscript, an entry with two empty lists
\* and zero counts; the entries and all their lists are distinct objects, and
\* a step changes the entry of at most one endpoint.
C13_LazyDistinctEntries ==
    /\ [](/\ RecordedKeys = accessed
          /\ Cardinality(RecordedKeys) = Len(aggregator)
          /\ Cardinality({aggregator[n].ref : n \in DOMAIN aggregator})
                = Len(aggregator)
          /\ Cardinality(ListRefs) = 2 * Len(aggregator)
          /\ \A key \in SessionEndpoints \ RecordedKeys :
                LET st == Subscript(Store, key)
                IN  /\ ValueOf(st, key) = EmptyEntry
                    /\ \A other \in RecordedKeys :
                          ValueOf(st, other) = ValueOf(Store, other))
    /\ [][Cardinality({key \in RecordedKeys :
                         ValueOf(Store, key)
                           # ValueOf([aggregator |-> aggregator', entries |-> entries',
                                      lists |-> lists', accessed |-> accessed'], key)})
             <= 1]_vars

\* both endpoints have an entry, with different recordings
C13_Witness ==
    /\ Len(aggregator) = 2
    /\ ValueOf(Store, PathTest1).status_codes # <<>>
    /\ ValueOf(Store, PathTest2).status_codes # <<>>
    /\ ValueOf(Store, PathTest1) # ValueOf(Store, PathTest2)

\* C19: in test_light_stress_sequential every pass of the loop adds one to
\* exactly one of successes, errors and timeouts, so that after the loop they
\* sum to the number of iterations; over the loop the entry's test_count grows
\* by the passes made, passed by successes and failed by errors + timeouts.
C19_LightStressCounts ==
    (running.test = "test_light_stress_sequential")
        => /\ running.successes + running.errors + running.timeouts = running.i
           /\ running.pc = "ended" => running.i = Iterations
           /\ LET e == FoundEntry(Store, running.endpoint)
               IN  /\ e.test_count = running.found.test_count + running.i
                   /\ e.passed = running.found.passed + running.successes
                   /\ e.failed = running.found.failed + running.errors
                                  + running.timeouts

\* the loop has ended on an entry that existed, with a success and a timeout
C19_Witness ==
    /\ running.test = "test_light_stress_sequential" /\ running.pc = "ended"
    /\ running.found.test_count > 0
    /\ running.successes > 0 /\ running.timeouts > 0

----------------------------------------------------------------------------
(* Properties of the retry test and of the verdict of                      *)
(* test_concurrent_requests, checked under SpecTests.                      *)

Returned200(outcome) == outcome.raised = "none" /\ outcome.status = 200
RetryRuns == trial.name = "test_endpoint_retry_resilience"
ConcurrentEnded == trial.name = "test_concurrent_requests" /\ trial.pc = "ended"
NoneOk == \A n \in DOMAIN trial.results : ~trial.results[n].ok

\* C15: test_endpoint_retry_resilience issues at most 3 requests, and every
\* request but the last one raised RequestException or returned a non-200
\* status: a request follows only a failed one, none follows a 200.
C15_RetryUntilFirst200 ==
    RetryRuns
        => /\ Len(sent) <= 3
           /\ \A k \in DOMAIN sent : k < Len(sent) => ~Returned200(sent[k])
           /\ trial.pc = "loop" => Len(sent) = trial.attempt - 1

\* a 200 on the second attempt, after an exception, ended the requests
C15_Witness ==
    /\ RetryRuns /\ trial.pc = "ended"
    /\ Len(sent) = 2 /\ sent[1].raised # "none" /\ Returned200(sent[2])

\* C16: the retry test passes iff one of its attempts returned 200; an
\* exception on attempt 1 or 2 is followed by another attempt; one on attempt
\* 3 leaves the test as RequestException; a non-200 response on attempt 3
\* makes the test fail on its assertion.
C16_RetryVerdict ==
    (RetryRuns /\ trial.pc = "ended")
        => /\ verdict = "passed" <=> \E k \in DOMAIN sent : Returned200(sent[k])
           /\ verdict \in {"passed", "failed"}
           /\ \A k \in DOMAIN sent :
                (k < 3 /\ sent[k].raised # "none") => Len(sent) > k
           /\ (Len(sent) = 3 /\ sent[3].raised # "none")
                => verdict = "failed" /\ trial.raised = "RequestException"
           /\ (Len(sent) = 3 /\ sent[3].raised = "none" /\ sent[3].status # 200)
                => verdict = "failed" /\ trial.raised = "AssertionError"

\* two swallowed exceptions, and the third propagates
C16_Witness ==
    /\ RetryRuns /\ trial.pc = "ended"
    /\ Len(sent) = 3
    /\ \A k \in DOMAIN sent : sent[k].raised # "none"
    /\ trial.raised = "RequestException"

Lookups == {"get_schema", "get_endpoint_schema", "get_all_test_endpoints"}

FixtureFailed == fixture.made /\ fixture.raised # "none"

\* C21: the schema_manager fixture always yields a manager, also when its
\* download_schema call raised; in that case the cache is absent afterwards,
\* and a later get_schema, get_endpoint_schema or get_all_test_endpoints call
\* that finds the cache as the fixture left it issues the GET again and
\* raises the failure of that download to the test
C21_FailedFixtureLeavesNoCache ==
    /\ call.op = "schema_manager"
        => fixture.made /\ call.raised = "none" /\ call.retKind = "manager"
    /\ FixtureFailed
        => /\ ~fixture.left.exists
           /\ (call.op \in Lookups /\ call.before = fixture.left)
                => /\ call.gets = 1
                   /\ call.net # "ok" => call.raised = call.net
                   /\ (call.net = "ok" /\ ~call.served.valid)
                        => call.raised = "YAMLError"


(***************************************************************************)
(* The aggregator's entries after sequential recordings                    *)
(***************************************************************************)

\* C22: between the recordings of single-threaded tests every aggregator
\* entry has passed + failed <= test_count and
\* len(response_times) <= len(status_codes) <= test_count
C22_EntryCountsOrdered ==
    \A n \in DOMAIN aggregator :
        LET e == ValueOf(Store, aggregator[n].k)
        IN  /\ e.passed + e.failed <= e.test_count
            /\ Len(e.response_times) <= Len(e.status_codes)
            /\ Len(e.status_codes) <= e.test_count

\* an entry that holds fewer times than statuses and fewer statuses than tests
C22_Witness ==
    \E n \in DOMAIN aggregator :
        LET e == ValueOf(Store, aggregator[n].k)
        IN  /\ 0 < Len(e.response_times)
            /\ Len(e.response_times) < Len(e.status_codes)
            /\ Len(e.status_codes) < e.test_count
            /\ e.passed > 0 /\ e.failed > 0

(***************************************************************************)
(* The summary's overall results                                           *)
(***************************************************************************)

Labelled(summary, text) ==
    Cardinality({n \in DOMAIN summary.lines : summary.lines[n].status_text = text})

\* C23: in every summary logged, the stable, unstable and failed counts of
\* OVERALL RESULTS add up to the number of endpoints listed, and each equals
\* the number of endpoints labelled OK, UNSTABLE and FAILED above it
C23_OverallCountsMatchLabels ==
    \A n \in DOMAIN log :
        /\ log[n].stable + log[n].unstable + log[n].failed = Len(log[n].lines)
        /\ log[n].stable = Labelled(log[n], "OK")
        /\ log[n].unstable = Labelled(log[n], "UNSTABLE")
        /\ log[n].failed = Labelled(log[n], "FAILED")

(***************************************************************************)
(* test_endpoints_discovery                                                *)
(***************************************************************************)

DiscoveryRuns == trial.name = "test_endpoints_discovery"

\* the requests that returned 200 after an earlier one had not
Recoveries ==
    {n \in DOMAIN sent :
        /\ sent[n].raised = "none" /\ sent[n].status = 200
        /\ \E m \in 1..(n - 1) : sent[m].status # 200}

Flagged == {n \in DOMAIN trial.results : trial.results[n].recovered}

\* C24: during and after a run of test_endpoints_discovery at most one
\* result is flagged recovered, it is the first 200 that follows a non-200
\* of the run, and first_success_at is its number; with no such response
\* nothing is flagged and first_success_at is None
C24_FirstRecoveryFlagged ==
    DiscoveryRuns
        => /\ Cardinality(Flagged) <= 1
           /\ Recoveries = {}
                => Flagged = {} /\ trial.first_success_at = 0
           /\ Recoveries # {}
                => \E n \in Recoveries :
                      /\ \A m \in Recoveries : n <= m
                      /\ Flagged = {n}
                      /\ trial.first_success_at = n

\* a finished run with two recoveries, the first one flagged
C24_Witness ==
    /\ DiscoveryRuns /\ trial.pc = "ended" /\ verdict = "passed"
    /\ Cardinality(Recoveries) = 2
    /\ Flagged = {2}

\* C27: the delay_before of every request after the first is the delay slept
\* just before that request, with increase_delay false and true, and nothing
\* is slept before the first request
C27_DelayBeforeIsDelaySlept ==
    DiscoveryRuns
        => \A n \in DOMAIN trial.results :
              /\ n = 1 => trial.slept[n] = NoDelay
              /\ n > 1 => SameDelay(trial.results[n].delay_before, trial.slept[n])

(***************************************************************************)
(* test_endpoint_3_recovery_pattern                                        *)
(***************************************************************************)

RecoveryLoopDone ==
    /\ trial.name = "test_endpoint_3_recovery_pattern"
    /\ trial.raised = "none" /\ trial.i = RecoveryRequests

Failures == {n \in DOMAIN sent : sent[n].status # HTTP_OK}

\* the 200 responses that came after the first failure
RecoveriesAfterFailure ==
    {n \in DOMAIN sent :
        /\ sent[n].status = HTTP_OK
        /\ \E m \in Failures : m < n}

\* C25: after the loop first_failure is the number of the first request
\* answered with a non-200 status (None when there is none) and
\* recovery_point is the number of the first request answered with 200 after
\* it (None when there is none), for every sequence of statuses
C25_FirstFailureFirstRecovery ==
    RecoveryLoopDone
        => /\ IF Failures = {} THEN trial.first_failure = 0
              ELSE /\ trial.first_failure \in Failures
                   /\ \A m \in Failures : trial.first_failure <= m
           /\ IF RecoveriesAfterFailure = {} THEN trial.recovery_point = 0
              ELSE /\ trial.recovery_point \in RecoveriesAfterFailure
                   /\ \A m \in RecoveriesAfterFailure : trial.recovery_point <= m

(***************************************************************************)
(* test_endpoint_cooldown_period                                           *)
(***************************************************************************)

\* C26: when the test has found the cooldown and reports it as at most
\* actual_cooldown seconds, the time it has waited between the 429 and the
\* first 200 after it is at most actual_cooldown seconds
C26_WaitedAtMostReported ==
    (trial.name = "test_endpoint_cooldown_period" /\ trial.cooldown_found)
        => trial.waited <= trial.actual_cooldown

(***************************************************************************)
(* get_test_logger                                                         *)
(***************************************************************************)

ReturnedCalls == {n \in DOMAIN logger_calls : logger_calls[n].raised = "none"}

\* C28: all calls of get_test_logger that return in one process return the
\* same logger object, at most one of them constructs a TestLogger, and the
\* handlers of the logger stay those set up from the arguments of the call
\* that constructed it, whatever the later calls pass
C28_OneLoggerBuiltOnce ==
    /\ \A a, b \in ReturnedCalls :
          /\ logger_calls[a].returned = logger_calls[b].returned
          /\ logger_calls[a].handlers = logger_calls[b].handlers
    /\ Cardinality({n \in DOMAIN logger_calls : logger_calls[n].constructed}) <= 1
    /\ \A n \in ReturnedCalls :
          logger_calls[n].constructed
            => /\ \A m \in ReturnedCalls : n <= m
               /\ \A m \in ReturnedCalls :
                     logger_calls[m].handlers
                        = Handlers(logger_calls[n].console_level,
                                   logger_calls[n].file_level)

\* a later call passes another name and other levels and gets the first logger
C28_Witness ==
    \E a, b \in ReturnedCalls :
        /\ a < b
        /\ logger_calls[a].constructed
        /\ logger_calls[b].name # logger_calls[a].name
        /\ logger_calls[b].console_level # logger_calls[a].console_level
        /\ logger_calls[b].file_level # logger_calls[a].file_level
        /\ logger_calls[b].returned = logger_calls[a].name

====
